---- MODULE Spec2Model ----
(***************************************************************************)
(* A model of the jotai stores of this repository.                         *)
(*                                                                         *)
(*   - the epoch-based vanilla store (src/unnamed/part_001): buildStore    *)
(*     with readAtomState, recomputeDependents, writeAtomState, mountAtom, *)
(*     unmountAtom, subscribeAtom, flushPending and the continuable        *)
(*     promise;                                                            *)
(*                                                                         *)
(* The recursive store functions are operators over a machine record M     *)
(* that holds the mutable objects the functions share (the atom state map, *)
(* the Pending triple of the running operation, the promise tables) and    *)
(* the observations of the running operation (read-function invocations,   *)
(* listener calls).  One action is one store operation run to completion,  *)
(* or one callback of the job queue.                                       *)
(***************************************************************************)
EXTENDS Integers, Sequences, FiniteSets, TLC

\* ------------------------------------------------------------------ bounds

\* values a caller passes to store.set: 0..MaxVal
MaxVal == 2
\* store operations and callbacks run in one behaviour
MaxOps == 5
\* events of one behaviour of the Provider, React's renders and effects included
MaxSteps == 8
\* events of the Provider when the write functions throw
MaxThrowSteps == 5
\* operations on two stores that share promises
MaxStoreOps == 4
\* store operations and callbacks on the graphs of EpochScenarios
MaxEpochOps == 4
\* useAtom calls of the components of one behaviour of the Provider
MaxUsers == 3
\* events of the Provider with components that mount and unmount, React's
\* renders and effects included
MaxUseSteps == 16
\* calls of the application on the graph "susp", and the events of one
\* behaviour with the callbacks of the promises, the renders and the effects
MaxSuspOps == 4
MaxSuspSteps == 16
MaxAllOps == 3
MaxAllSteps == 10
MaxAllPromises == 24

\* ------------------------------------------------------- ordered collections
\* A JavaScript Set or Map iterates in insertion order: both are sequences here.

Range(s) == {s[i] : i \in 1..Len(s)}

\* Set.prototype.add
SetAdd(s, x) == IF x \in Range(s) THEN s ELSE Append(s, x)

\* Set.prototype.delete
SetDel(s, x) == SelectSeq(s, LAMBDA y : y /= x)

\* Map.prototype.has, on a sequence of <<key, value>> pairs
MapHas(d, k) == \E i \in 1..Len(d) : d[i][1] = k

\* Map.prototype.set: an existing key keeps its place
MapSet(d, k, n) ==
    IF MapHas(d, k)
    THEN [i \in 1..Len(d) |-> IF d[i][1] = k THEN <<k, n>> ELSE d[i]]
    ELSE Append(d, <<k, n>>)

\* Map.prototype.keys
MapKeys(d) == [i \in 1..Len(d) |-> d[i][1]]

\* ------------------------------------------------------------------ values
\* A JavaScript value held by an atom: a number, or a promise object (by id).

Num(x) == [k |-> "num", x |-> x]
Prom(id) == [k |-> "promise", x |-> id]     \* a continuable promise
Raw(id) == [k |-> "raw", x |-> id]          \* any other promise
Undef == [k |-> "undefined", x |-> 0]

\* ------------------------------------------------------------------- atoms
\* The atom definitions the store is exercised with (application code).
\*   rd: the read function    wr: the write function    init: 'init' in atom

Atoms == {"a", "b", "dbl", "par", "dia", "cnd", "w", "err", "cst", "asy", "tg",
          "h", "g", "pick", "top", "bm", "tb", "ed", "thr", "wt", "thw",
          "q1", "q2", "pp", "w2", "se", "slf", "mix", "dp", "late", "bt", "rw", "nx",
          "bad", "wfa", "wfo"}

AtomDef(atom) ==
    CASE atom = "a"   -> [rd |-> "self", wr |-> "self", hasInit |-> TRUE, init |-> Num(0), x |-> "a", y |-> "a"]
      [] atom = "b"   -> [rd |-> "self", wr |-> "self", hasInit |-> TRUE, init |-> Num(0), x |-> "b", y |-> "b"]
      \* atom((get) => get(a) * 2)
      [] atom = "dbl" -> [rd |-> "double", wr |-> "none", hasInit |-> FALSE, init |-> Undef, x |-> "a", y |-> "a"]
      \* atom((get) => get(a) % 2)
      [] atom = "par" -> [rd |-> "parity", wr |-> "none", hasInit |-> FALSE, init |-> Undef, x |-> "a", y |-> "a"]
      \* atom((get) => get(dbl) + get(par))
      [] atom = "dia" -> [rd |-> "sum", wr |-> "none", hasInit |-> FALSE, init |-> Undef, x |-> "dbl", y |-> "par"]
      \* atom((get) => get(a) % 2 ? get(dbl) : get(b))
      [] atom = "cnd" -> [rd |-> "cond", wr |-> "none", hasInit |-> FALSE, init |-> Undef, x |-> "dbl", y |-> "b"]
      \* atom(null, (get, set, v) => { set(a, v); set(b, v) })
      [] atom = "w"   -> [rd |-> "self", wr |-> "both", hasInit |-> TRUE, init |-> Undef, x |-> "a", y |-> "b"]
      \* atom((get) => { const v = get(a); if (v === 2) throw new Error(); return v })
      [] atom = "err" -> [rd |-> "throw2", wr |-> "none", hasInit |-> FALSE, init |-> Undef, x |-> "a", y |-> "a"]
      \* atom(() => 7)
      [] atom = "cst" -> [rd |-> "const", wr |-> "none", hasInit |-> FALSE, init |-> Undef, x |-> "a", y |-> "a"]
      \* atom(async (get) => { const v = get(a); await fetched; return v + 10 })
      [] atom = "asy" -> [rd |-> "async", wr |-> "none", hasInit |-> FALSE, init |-> Undef, x |-> "a", y |-> "a"]
      \* atom(0, async (get, set, n) => { await delay; set(tg, n) })
      [] atom = "tg"  -> [rd |-> "self", wr |-> "later", hasInit |-> TRUE, init |-> Num(0), x |-> "tg", y |-> "tg"]
      \* atom(null, (get, set, v) => { set(tg, v); throw new Error() })
      [] atom = "wt"  -> [rd |-> "self", wr |-> "setthrow", hasInit |-> TRUE, init |-> Undef, x |-> "tg", y |-> "tg"]
      \* atom(null, (get, set, v) => { throw new Error() })
      [] atom = "thw" -> [rd |-> "self", wr |-> "throw", hasInit |-> TRUE, init |-> Undef, x |-> "thw", y |-> "thw"]
      \* q = atom(0) used with two stores: q1 stands for q in the atomStateMap
      \* of the first store, q2 for q in that of the second
      [] atom = "q1"  -> [rd |-> "self", wr |-> "self", hasInit |-> TRUE, init |-> Num(0), x |-> "q1", y |-> "q1"]
      [] atom = "q2"  -> [rd |-> "self", wr |-> "self", hasInit |-> TRUE, init |-> Num(0), x |-> "q2", y |-> "q2"]
      \* atom(0), with an onMount hook (see onMount)
      [] atom = "h"   -> [rd |-> "self", wr |-> "self", hasInit |-> TRUE, init |-> Num(0), x |-> "h", y |-> "h"]
      [] atom = "g"   -> [rd |-> "self", wr |-> "self", hasInit |-> TRUE, init |-> Num(0), x |-> "g", y |-> "g"]
      [] atom = "bm"  -> [rd |-> "self", wr |-> "self", hasInit |-> TRUE, init |-> Num(0), x |-> "bm", y |-> "bm"]
      \* atom((get) => get(a) % 2 ? get(h) : get(g))
      [] atom = "pick" -> [rd |-> "cond", wr |-> "none", hasInit |-> FALSE, init |-> Undef, x |-> "h", y |-> "g"]
      \* atom((get) => get(h) + 1, (get, set, v) => set(h, v)), with an onMount hook
      [] atom = "top" -> [rd |-> "inc", wr |-> "to", hasInit |-> FALSE, init |-> Undef, x |-> "h", y |-> "h"]
      \* atom((get) => get(bm) + get(a), (get, set, v) => set(bm, v)), with an
      \* onMount hook
      [] atom = "tb"  -> [rd |-> "sum", wr |-> "to", hasInit |-> FALSE, init |-> Undef, x |-> "bm", y |-> "a"]
      \* atom((get) => get(err) + 1)
      [] atom = "ed"  -> [rd |-> "inc", wr |-> "none", hasInit |-> FALSE, init |-> Undef, x |-> "err", y |-> "err"]
      \* atom((get) => { const v = get(a); if (v === 1) throw new Error(); return v + get(b) })
      [] atom = "thr" -> [rd |-> "throwmid", wr |-> "none", hasInit |-> FALSE, init |-> Undef, x |-> "a", y |-> "b"]

      \* atom((get) => get(par) + 1)
      [] atom = "pp"  -> [rd |-> "inc", wr |-> "none", hasInit |-> FALSE, init |-> Undef, x |-> "par", y |-> "par"]
      \* atom((get) => get(a) === 2 ? get(pp) : 0)
      [] atom = "w2"  -> [rd |-> "when2", wr |-> "none", hasInit |-> FALSE, init |-> Undef, x |-> "pp", y |-> "pp"]
      \* atom((get) => get(b) + get(err))
      [] atom = "se"  -> [rd |-> "sum", wr |-> "none", hasInit |-> FALSE, init |-> Undef, x |-> "b", y |-> "err"]
      \* slf = atom((get) => get(slf)): a derived atom that reads itself
      [] atom = "slf" -> [rd |-> "self", wr |-> "none", hasInit |-> FALSE, init |-> Undef, x |-> "slf", y |-> "slf"]
      \* atom((get, { signal }) => { const v = get(a); if (v === 1) return v
      \*   if (v === 2) throw new Error(); return fetched(v + 10, signal) })
      [] atom = "mix" -> [rd |-> "mix", wr |-> "none", hasInit |-> FALSE, init |-> Undef, x |-> "a", y |-> "a"]
      \* atom((get) => { get(mix); return 1 })
      [] atom = "dp"  -> [rd |-> "seen", wr |-> "none", hasInit |-> FALSE, init |-> Undef, x |-> "mix", y |-> "mix"]
      \* atom(async (get) => { const v = get(a); await delay
      \*   return v % 2 ? v + get(b) : v })
      [] atom = "late" -> [rd |-> "late", wr |-> "none", hasInit |-> FALSE, init |-> Undef, x |-> "a", y |-> "b"]
      \* atom((get) => get(h) + 1, (get, set, v) => set(h, v)), with an onMount
      \* hook whose cleanup throws
      [] atom = "bt"  -> [rd |-> "inc", wr |-> "to", hasInit |-> FALSE, init |-> Undef, x |-> "h", y |-> "h"]
      \* atom(null, (get, set, v) => { set(a, v); return [get(a), get(dia)] })
      [] atom = "rw"  -> [rd |-> "self", wr |-> "setget", hasInit |-> TRUE, init |-> Undef, x |-> "a", y |-> "dia"]
      \* atom((get) => get(asy) + 1)
      [] atom = "nx"  -> [rd |-> "inc", wr |-> "none", hasInit |-> FALSE, init |-> Undef, x |-> "asy", y |-> "asy"]
      \* atom(async (get) => { const v = get(a); await 0;
      \*                       if (v === 0) throw new Error(); return v + 20 })
      [] atom = "bad" -> [rd |-> "async", wr |-> "none", hasInit |-> FALSE, init |-> Undef, x |-> "a", y |-> "a"]
      \* waitForAll([asy, bad])
      [] atom = "wfa" -> [rd |-> "all", wr |-> "none", hasInit |-> FALSE, init |-> Undef, x |-> "asy", y |-> "bad"]
      \* waitForAll({ p: asy, q: bad })
      [] atom = "wfo" -> [rd |-> "all", wr |-> "none", hasInit |-> FALSE, init |-> Undef, x |-> "asy", y |-> "bad"]

\* atom.onMount of the atom definitions:
\*   plain  (setSelf) => cleanup
\*   set    (setSelf) => { setSelf(1); return cleanup }
\*   boom   (setSelf) => () => { throw new Error() }
onMount(atom) ==
    CASE atom \in {"h", "top", "tb"} -> "plain"
      [] atom = "g" -> "set"
      [] atom \in {"bm", "bt"} -> "boom"
      [] OTHER -> "none"

hasInitialValue(atom) == AtomDef(atom).hasInit

isActuallyWritableAtom(atom) == AtomDef(atom).wr /= "none"

\* The atom graphs a store is exercised with, one per run.
Scenario(s) ==
    CASE s = "diamond" -> {"a", "dbl", "par", "dia"}
      [] s = "cond"    -> {"a", "b", "dbl", "cnd"}
      [] s = "batch"   -> {"a", "b", "w"}
      [] s = "error"   -> {"a", "err", "cst"}
      [] s = "async"   -> {"a", "asy"}
      [] s = "awrite"  -> {"tg"}
      [] s = "wthrow"  -> {"tg", "wt", "thw"}
      [] s = "stores"  -> {"q1", "q2"}
      [] s = "hooks"   -> {"a", "h", "g", "pick"}
      [] s = "chain"   -> {"h", "top"}
      [] s = "boom"    -> {"a", "bm", "tb"}
      [] s = "errdep"  -> {"a", "err", "ed"}
      [] s = "errcond" -> {"a", "b", "thr"}
      [] s = "skip"    -> {"a", "par", "pp", "w2"}
      [] s = "sameerr" -> {"a", "b", "err", "se"}
      [] s = "selfread" -> {"a", "slf"}
      [] s = "mixed"   -> {"a", "mix", "dp"}
      [] s = "late"    -> {"a", "b", "late"}
      [] s = "ryw"     -> {"a", "dbl", "par", "dia", "rw"}
      \* the diamond, read by the components under a Provider
      [] s = "use"     -> {"a", "dbl", "par", "dia"}
      \* an atom that reads an asynchronous atom
      [] s = "susp"    -> {"a", "asy", "nx"}
      \* two asynchronous atoms and the atoms waitForAll makes of them
      [] s = "all"     -> {"a", "asy", "bad", "wfa", "wfo"}
      \* the graphs "chain" and "hooks", used by an application that keeps
      \* the unsubscribe functions it has called
      [] s = "again"   -> {"h", "top"}
      [] s = "release" -> {"a", "h", "g", "pick"}
      [] s = "drop"    -> {"h", "bt"}

\* the graphs without promises, and those with an asynchronous read or write
Scenarios == {"diamond", "cond", "batch", "error"}
AsyncScenarios == {"async", "awrite"}
\* the graphs with onMount hooks and with read functions that throw
LifeScenarios == {"hooks", "chain", "boom", "errdep", "errcond"}
\* the graphs that exercise the epoch numbers, the dependency maps and the
\* accessor of the write functions
EpochScenarios == {"skip", "sameerr", "selfread", "mixed", "late", "ryw"}

\* the graphs used by an application that calls an unsubscribe function again
UnsubScenarios == {"again", "release", "drop"}

Listeners == {"l1", "l2"}

\* ------------------------------------------------- part_001: state records

\* Mounted (part_001:115-124); on = FALSE is "atomState.m is undefined"
\* u: the onUnmount function is set; id tells apart the Mounted objects an
\* atom has had
NoMounted == [on |-> FALSE, l |-> <<>>, d |-> <<>>, t |-> <<>>, u |-> FALSE, id |-> 0]

\* createStore's getAtomState: the record of an atom not accessed yet
NewAtomState ==
    [d |-> <<>>, p |-> <<>>, n |-> 0, m |-> NoMounted,
     hasV |-> FALSE, v |-> Undef, hasE |-> FALSE, e |-> 0]

createPending ==
    [dep |-> [a \in Atoms |-> [has |-> FALSE, s |-> <<>>]], as |-> <<>>, fn |-> <<>>]

\* The machine at the start of a store: no atom accessed, nothing pending.
NewMachine ==
    [st    |-> [a \in Atoms |-> NewAtomState],
     pend  |-> createPending,
     raw   |-> <<>>,      \* promises made by read functions and Promise.resolve
     cp    |-> <<>>,      \* continuable promises
     wq    |-> <<>>,      \* asynchronous write functions, suspended at their await
     rq    |-> <<>>,      \* asynchronous read functions, suspended at their await
     rs    |-> [a \in Atoms |-> {}],  \* observation: the atoms the latest
                          \* computation of an atom has read through the accessor
     eid   |-> 0,         \* Error objects made so far
     held  |-> {},        \* the promises the application has made
     usd   |-> {},        \* the unsubscribe functions called and kept; cur: the
                          \* Mounted object whose listeners the function
                          \* captured is still the Mounted object of the atom
     mid   |-> 0,         \* Mounted objects made so far
     exc   |-> 0,         \* the Error a pending function threw, propagating
     lost  |-> <<>>,      \* observation: the pending functions that had not run
                          \* when the Error ended the loop of flushPending
     owe   |-> [a \in Atoms |-> 0],  \* observation: cleanups returned by onMount
                          \* and not invoked yet
     hk    |-> <<>>,      \* observation: onMount and cleanup calls
     mt    |-> <<>>,      \* observation: Mounted objects made, in order
     rc    |-> [a \in Atoms |-> 0],   \* observation: read-function invocations
     log   |-> <<>>,      \* observation: listener calls
     seen  |-> <<>>,      \* observation: what the accessor returned to a write
                          \* function, and what the definitions denote
     stale |-> FALSE,     \* observation: an accessor returned an outdated value
     unm   |-> {},        \* observation: atoms whose Mounted was deleted
     inw   |-> 0,         \* observation: write functions still running
     scn   |-> "diamond"] \* the atom graph in use (see Scenario)

isAtomStateInitialized(atomState) == atomState.hasV \/ atomState.hasE

\* a returnAtomValue that never throws
returnAtomValueNoThrow(atomState) == [ok |-> TRUE, v |-> atomState.v, e |-> 0]

\* returnAtomValue: [ok, v] or the thrown error [~ok, e]
returnAtomValue(atomState) ==
    IF atomState.hasE
    THEN [ok |-> FALSE, v |-> Undef, e |-> atomState.e]
    ELSE [ok |-> TRUE, v |-> atomState.v, e |-> 0]

isContinuablePromise(M, value) ==
    value.k = "promise" /\ value.x \in 1..Len(M.cp)

\* the pending continuable promise held as the atom's value: its id, or 0 (null)
getPendingContinuablePromise(M, atomState) ==
    IF atomState.hasV /\ isContinuablePromise(M, atomState.v)
       /\ M.cp[atomState.v.x].status = "pending"
    THEN atomState.v.x
    ELSE 0

\* The promise.then callbacks that delete the atom from p run when the
\* continuable promise settles (see SettleContinuable).
addPendingContinuablePromiseToDependency(M, atom, promise, a) ==
    IF atom \in Range(M.st[a].p)
    THEN M
    ELSE [M EXCEPT !.st[a].p = SetAdd(@, atom),
                   !.cp[promise].regs = @ \cup {a}]

\* ---------------------------------------------------------------- Pending

addPendingAtom(M, atom) ==
    [M EXCEPT !.pend.dep[atom].has = TRUE,
              !.pend.as = SetAdd(@, atom)]

addPendingDependent(M, atom, dependent) ==
    IF M.pend.dep[atom].has
    THEN [M EXCEPT !.pend.dep[atom].s = SetAdd(@, dependent)]
    ELSE M

getPendingDependents(M, atom) ==
    IF M.pend.dep[atom].has THEN M.pend.dep[atom].s ELSE <<>>

addPendingFunction(M, fn) == [M EXCEPT !.pend.fn = SetAdd(@, fn)]

\* ------------------------------------------------------ continuable promise

isPromiseLike(x) == x.k \in {"raw", "promise"}

\* A promise made by a read function (or by Promise.resolve): res is what it
\* settles with, done whether its then-callbacks have run, cp the continuable
\* promise whose onFulfilled/onRejected it carries, aborted the calls of the
\* abort callback of the computation that made it.  wait: the async function
\* that made it has not returned yet.  now: the promise was made by
\* Promise.resolve, its reactions run before any other job.  sup
\* (observation): the atom was recomputed while the promise was the one its
\* pending value followed.
NewRaw(res, ok, atom) ==
    [res |-> res, ok |-> ok, done |-> FALSE, cp |-> 0, aborted |-> 0, atom |-> atom,
     wait |-> FALSE, now |-> FALSE, sup |-> FALSE]

\* createContinuablePromise: the continuable promise of a promise, made on the
\* first call (continuablePromiseMap).  owner is the promise whose abort
\* callback is the current `abort`.  und (observation): continuePromise has
\* been called with undefined.
createContinuablePromise(M, promise, atom) ==
    IF M.raw[promise].cp /= 0
    THEN [M |-> M, p |-> M.raw[promise].cp]
    ELSE LET p == Len(M.cp) + 1 IN
         [M |-> [M EXCEPT !.cp = Append(@, [status |-> "pending", value |-> Undef,
                                            curr |-> promise, owner |-> promise,
                                            atom |-> atom, regs |-> {},
                                            und |-> FALSE]),
                          !.raw[promise].cp = p],
          p |-> p]

\* continuePromise (part_001:84-96) with a next promise
continuePromise(M, p, nextPromise) ==
    [M EXCEPT !.raw[nextPromise].cp = p,
              !.cp[p].curr = nextPromise,
              !.raw[M.cp[p].owner].aborted = @ + 1,
              !.cp[p].owner = nextPromise]

\* ------------------------------------------------------------ part_001 store

RECURSIVE addPendingToDeps(_, _, _, _, _)
addPendingToDeps(M, atom, promise, keys, i) ==
    IF i > Len(keys) THEN M
    ELSE addPendingToDeps(
            addPendingContinuablePromiseToDependency(M, atom, promise, keys[i]),
            atom, promise, keys, i + 1)

setAtomStateValueOrPromise(M, atom, valueOrPromise) ==
    LET hasPrevValue == M.st[atom].hasV
        prevValue == M.st[atom].v
        pendingPromise == getPendingContinuablePromise(M, M.st[atom])
        \* atomState.v = v; delete atomState.e; a new value advances the epoch
        assign(M1, v) ==
            [M1 EXCEPT !.st[atom].v = v,
                       !.st[atom].hasV = TRUE,
                       !.st[atom].hasE = FALSE,
                       !.st[atom].e = 0,
                       !.st[atom].n = IF ~hasPrevValue \/ prevValue /= v THEN @ + 1 ELSE @]
        \* c: the continuable promise of the promise, none being pending
        adopt(c) ==
            assign(IF c.M.cp[c.p].status = "pending"
                   THEN addPendingToDeps(c.M, atom, c.p, MapKeys(M.st[atom].d), 1)
                   ELSE c.M,
                   Prom(c.p))
    IN IF isPromiseLike(valueOrPromise)
       THEN IF pendingPromise /= 0
            THEN IF valueOrPromise /= Prom(pendingPromise)
                 THEN [continuePromise(M, pendingPromise, valueOrPromise.x)
                         EXCEPT !.st[atom].n = @ + 1]
                 ELSE M
            ELSE adopt(createContinuablePromise(M, valueOrPromise.x, atom))
       ELSE assign(IF pendingPromise /= 0
                   \* Promise.resolve(valueOrPromise)
                   THEN continuePromise(
                          [M EXCEPT !.raw = Append(@, [NewRaw(valueOrPromise, TRUE, atom)
                                                         EXCEPT !.now = TRUE])],
                          pendingPromise, Len(M.raw) + 1)
                   ELSE M,
                   valueOrPromise)

addDependency(M, atom, a) ==
    LET continuablePromise == getPendingContinuablePromise(M, M.st[atom])
    IN addPendingDependent(
         [(IF continuablePromise /= 0
           THEN addPendingContinuablePromiseToDependency(M, atom, continuablePromise, a)
           ELSE M)
            EXCEPT !.st[atom].d = MapSet(@, a, M.st[a].n),
                   \* aState.m?.t.add(atom)
                   !.st[a].m.t = IF M.st[a].m.on THEN SetAdd(@, atom) ELSE @],
         a, atom)

\* What the atom definitions denote, given the values of the primitive atoms
\* held by the store: the yardstick the accessor's results are compared with.
PrimVal(M, a) == IF M.st[a].hasV THEN M.st[a].v ELSE AtomDef(a).init

RECURSIVE Ideal(_, _)
Ideal(M, atom) ==
    LET a == PrimVal(M, "a").x
        succ(i) == IF i.ok THEN [ok |-> TRUE, v |-> Num(i.v.x + 1)] ELSE i
        plus(i, j) == IF ~i.ok THEN i
                      ELSE IF ~j.ok THEN j
                      ELSE [ok |-> TRUE, v |-> Num(i.v.x + j.v.x)]
        denotes(def) ==
            CASE def.rd = "self"   -> IF def.hasInit
                                      THEN [ok |-> TRUE, v |-> PrimVal(M, atom)]
                                      ELSE [ok |-> FALSE, v |-> Undef]
              [] def.rd = "double" -> [ok |-> TRUE, v |-> Num(2 * a)]
              [] def.rd = "parity" -> [ok |-> TRUE, v |-> Num(a % 2)]
              [] def.rd = "sum"    -> plus(Ideal(M, def.x), Ideal(M, def.y))
              [] def.rd = "cond"   -> IF a % 2 = 1 THEN Ideal(M, def.x) ELSE Ideal(M, def.y)
              [] def.rd = "throw2" -> IF a = 2 THEN [ok |-> FALSE, v |-> Undef]
                                               ELSE [ok |-> TRUE, v |-> Num(a)]
              [] def.rd = "const"  -> [ok |-> TRUE, v |-> Num(7)]
              \* what the promise of the latest computation fulfils with
              [] def.rd = "async"  -> [ok |-> TRUE, v |-> Num(a + 10)]
              [] def.rd = "inc"    -> succ(Ideal(M, def.x))
              [] def.rd = "throwmid" ->
                   IF a = 1 THEN [ok |-> FALSE, v |-> Undef]
                            ELSE [ok |-> TRUE, v |-> Num(a + PrimVal(M, def.y).x)]
              [] def.rd = "when2"  -> IF a = 2 THEN Ideal(M, def.x)
                                               ELSE [ok |-> TRUE, v |-> Num(0)]
              [] def.rd = "mix"    -> CASE a = 1 -> [ok |-> TRUE, v |-> Num(1)]
                                        [] a = 2 -> [ok |-> FALSE, v |-> Undef]
                                        [] OTHER -> [ok |-> TRUE, v |-> Num(a + 10)]
              [] def.rd = "seen"   -> IF Ideal(M, def.x).ok
                                      THEN [ok |-> TRUE, v |-> Num(1)]
                                      ELSE Ideal(M, def.x)
              [] def.rd = "late"   -> [ok |-> TRUE,
                                       v |-> Num(IF a % 2 = 1
                                                 THEN a + PrimVal(M, def.y).x ELSE a)]
    IN denotes(AtomDef(atom))

\* what an operation that returns nothing returns
NoResult == [ok |-> TRUE, v |-> Undef, e |-> 0]

\* the result of an accessor call or of a read function
Ret(M, v) == [M |-> M, ok |-> TRUE, v |-> v, e |-> 0]
Throw(M, e) == [M |-> M, ok |-> FALSE, v |-> Undef, e |-> e]
\* throw new Error(...)
ThrowNew(M) == Throw([M EXCEPT !.eid = @ + 1], M.eid + 1)

\* observation: the accessor hands a read function a value of `a` that is not
\* the one the definitions denote
Outdated(M, a) ==
    LET differs(r, ideal) ==
            /\ ~(r.ok /\ isPromiseLike(r.v))
            /\ \/ r.ok /= ideal.ok
               \/ r.ok /\ r.v /= ideal.v
    IN differs(returnAtomValue(M.st[a]), Ideal(M, a))

\* The functions of buildStore call one another recursively (readAtomState
\* reads dependencies, mountAtom mounts dependencies, a listener calls
\* store.get, ...): such a call is Call(M, c), c naming the function and its
\* arguments.
RECURSIVE Call(_, _)
RECURSIVE everyDependency(_, _, _, _)

\* an accessor that records the atom as its own dependency
getterSelfEdge(M, atom, a, force) ==
    LET result(M1) ==
            IF M1.st[a].hasE THEN Throw(M1, M1.st[a].e) ELSE Ret(M1, M1.st[a].v)
        initialized(M0) ==
            IF isAtomStateInitialized(M0.st[a]) \/ ~hasInitialValue(a) THEN M0
            ELSE setAtomStateValueOrPromise(M0, a, AtomDef(a).init)
    IN IF a = atom
       THEN IF ~isAtomStateInitialized(M.st[a]) /\ ~hasInitialValue(a)
            THEN ThrowNew(M)
            ELSE result(addDependency(initialized(M), atom, a))
       ELSE result(addDependency(
                     Call(M, [op |-> "readAtomState", atom |-> a, force |-> force]),
                     atom, a))

\* the accessor passed to atom.read while the read function runs (isSync)
getter(M, atom, a, force) ==
    LET \* returnAtomValue(aState)
        result(M1) ==
            IF M1.st[a].hasE THEN Throw(M1, M1.st[a].e) ELSE Ret(M1, M1.st[a].v)
        observed(M2) == result([M2 EXCEPT !.stale = @ \/ Outdated(M2, a),
                                          !.rs[atom] = @ \cup {a}])
    IN IF a = atom
       THEN IF isAtomStateInitialized(M.st[a]) THEN result(M)
            ELSE IF hasInitialValue(a)
                 THEN result(setAtomStateValueOrPromise(M, a, AtomDef(a).init))
                 ELSE ThrowNew(M)       \* 'no atom init'
       ELSE observed(addDependency(
                        Call(M, [op |-> "readAtomState", atom |-> a, force |-> force]),
                        atom, a))

\* atom.read(getter, options) of each atom definition
read(M, atom, force) ==
    LET get(M1, a) == Call(M1, [op |-> "getter", atom |-> atom, a |-> a, force |-> force])
        double(g) == IF g.ok THEN Ret(g.M, Num(2 * g.v.x)) ELSE g
        parity(g) == IF g.ok THEN Ret(g.M, Num(g.v.x % 2)) ELSE g
        plus(g1, g2) == IF g2.ok THEN Ret(g2.M, Num(g1.v.x + g2.v.x)) ELSE g2
        sum(g1, y) == IF g1.ok THEN plus(g1, get(g1.M, y)) ELSE g1
        cond(g0, x, y) == IF ~g0.ok THEN g0
                          ELSE IF g0.v.x % 2 = 1 THEN get(g0.M, x) ELSE get(g0.M, y)
        throw2(g) == IF ~g.ok THEN g
                     ELSE IF g.v.x = 2 THEN ThrowNew(g.M) ELSE Ret(g.M, g.v)
        \* the async function runs to its await and returns its promise
        async(g) == Ret([g.M EXCEPT !.raw = Append(@, NewRaw(Num(g.v.x + 10), TRUE, atom))],
                        Raw(Len(g.M.raw) + 1))
        inc(g) == IF g.ok THEN Ret(g.M, Num(g.v.x + 1)) ELSE g
        throwmid(g, y) == IF ~g.ok THEN g
                          ELSE IF g.v.x = 1 THEN ThrowNew(g.M) ELSE sum(g, y)
        when2(g, x) == IF ~g.ok THEN g
                       ELSE IF g.v.x = 2 THEN get(g.M, x) ELSE Ret(g.M, Num(0))
        mix(g) == IF ~g.ok THEN g
                  ELSE CASE g.v.x = 1 -> Ret(g.M, g.v)
                         [] g.v.x = 2 -> ThrowNew(g.M)
                         [] OTHER -> async(g)
        seen(g) == IF g.ok THEN Ret(g.M, Num(1)) ELSE g
        \* the async function runs to its await and returns its promise; what
        \* follows the await is resumeRead
        late(g) ==
            Ret([g.M EXCEPT !.raw = Append(@, [NewRaw(Undef, TRUE, atom) EXCEPT !.wait = TRUE]),
                            !.rq = Append(@, [atom |-> atom, v |-> g.v.x,
                                              raw |-> Len(g.M.raw) + 1,
                                              cur |-> TRUE, done |-> FALSE])],
                Raw(Len(g.M.raw) + 1))
        run(def) ==
            CASE def.rd = "self"   -> get(M, atom)
              [] def.rd = "double" -> double(get(M, def.x))
              [] def.rd = "parity" -> parity(get(M, def.x))
              [] def.rd = "sum"    -> sum(get(M, def.x), def.y)
              [] def.rd = "cond"   -> cond(get(M, "a"), def.x, def.y)
              [] def.rd = "throw2" -> throw2(get(M, def.x))
              [] def.rd = "const"  -> Ret(M, Num(7))
              [] def.rd = "async"  -> async(get(M, def.x))
              [] def.rd = "inc"    -> inc(get(M, def.x))
              [] def.rd = "throwmid" -> throwmid(get(M, def.x), def.y)
              [] def.rd = "when2"  -> when2(get(M, "a"), def.x)
              [] def.rd = "mix"    -> mix(get(M, def.x))
              [] def.rd = "seen"   -> seen(get(M, def.x))
              [] def.rd = "late"   -> late(get(M, def.x))
    IN run(AtomDef(atom))

\* a cache that is trusted without comparing the dependency epochs
everyDependencyTrusted(M, d, i, force) == [M |-> M, all |-> TRUE]

\* a cache that is never trusted for an atom that is not mounted
everyDependencyNever(M, d, i, force) == [M |-> M, all |-> FALSE]

\* Array.from(atomState.d).every(...): stops at the first changed dependency
everyDependency(M, d, i, force) ==
    LET compare(M1) ==
            IF M1.st[d[i][1]].n = d[i][2]
            THEN everyDependency(M1, d, i + 1, force)
            ELSE [M |-> M1, all |-> FALSE]
    IN IF i > Len(d) THEN [M |-> M, all |-> TRUE]
       ELSE compare(Call(M, [op |-> "readAtomState", atom |-> d[i][1], force |-> force]))

\* a catch that leaves the value in the atom state
recordErrorKeepingValue(M, atom, error) ==
    [M EXCEPT !.st[atom].hasE = TRUE,
              !.st[atom].e = error,
              !.st[atom].n = @ + 1]

\* the catch of readAtomState: delete atomState.v; atomState.e = error;
\* ++atomState.n
recordError(M, atom, error) ==
    [M EXCEPT !.st[atom].hasV = FALSE,
              !.st[atom].v = Undef,
              !.st[atom].hasE = TRUE,
              !.st[atom].e = error,
              !.st[atom].n = @ + 1]

\* part_001:393-475: compute a new state for this atom
computeAtomState(M, atom, force) ==
    LET outcome(r) ==
            IF r.ok
            THEN setAtomStateValueOrPromise(r.M, atom, r.v)
            ELSE recordError(r.M, atom, r.e)
        \* observations: this computation is the latest one of the atom, and
        \* it supersedes the computation whose promise is pending
        pendingPromise == getPendingContinuablePromise(M, M.st[atom])
        latest(M0) ==
            [M0 EXCEPT !.rs[atom] = {},
                       !.rq = [i \in 1..Len(@) |->
                                  IF @[i].atom = atom THEN [@[i] EXCEPT !.cur = FALSE]
                                  ELSE @[i]],
                       !.raw = IF pendingPromise = 0 THEN @
                               ELSE [@ EXCEPT ![M.cp[pendingPromise].owner].sup = TRUE]]
    IN outcome(read(latest([M EXCEPT !.st[atom].d = <<>>, !.rc[atom] = @ + 1]),
                    atom, force))

\* force is the set of atoms for which force(atom) is true (markedAtoms)
readAtomState(M, atom, force) ==
    LET \* r.all: the cached state is up to date
        cached(r) == IF r.all THEN r.M ELSE computeAtomState(r.M, atom, force)
    IN IF atom \notin force /\ isAtomStateInitialized(M.st[atom])
       THEN IF M.st[atom].m.on
            THEN M
            ELSE cached(everyDependency(M, M.st[atom].d, 1, force))
       ELSE cached([M |-> M, all |-> FALSE])

\* store.get: readAtomState(undefined, atom, undefined); an undefined pending
\* behaves as an empty one, on which addPendingDependent does nothing
readAtom(M, atom) ==
    LET result(M1) ==
            [M |-> [M1 EXCEPT !.pend = M.pend], r |-> returnAtomValue(M1.st[atom])]
    IN result(Call([M EXCEPT !.pend = createPending],
                   [op |-> "readAtomState", atom |-> atom, force |-> {}]))

\* ------------------------------------------------------- mount and unmount

RECURSIVE mountEach(_, _, _, _)
RECURSIVE unmountEach(_, _, _, _)
RECURSIVE mountNew(_, _, _, _)
RECURSIVE unmountGone(_, _, _, _)

\* mountDependencies, first loop: mount the dependencies not yet in m.d
mountNew(M, atom, keys, i) ==
    IF i > Len(keys) THEN M
    ELSE IF keys[i] \in Range(M.st[atom].m.d)
         THEN mountNew(M, atom, keys, i + 1)
         ELSE mountNew([Call(M, [op |-> "mountAtom", atom |-> keys[i]])
                          EXCEPT !.st[keys[i]].m.t = SetAdd(@, atom),
                                 !.st[atom].m.d = SetAdd(@, keys[i])],
                       atom, keys, i + 1)

\* mountDependencies, second loop: release the members of m.d no longer read
unmountGone(M, atom, md, i) ==
    LET \* aMounted?.t.delete(atom), after unmountAtom(a) has run
        released(M1) ==
            [M1 EXCEPT !.st[md[i]].m.t = IF M1.st[md[i]].m.on THEN SetDel(@, atom) ELSE @,
                       !.st[atom].m.d = SetDel(@, md[i])]
    IN IF i > Len(md) THEN M
       ELSE IF MapHas(M.st[atom].d, md[i])
            THEN unmountGone(M, atom, md, i + 1)
            ELSE unmountGone(released(Call(M, [op |-> "unmountAtom", atom |-> md[i]])),
                             atom, md, i + 1)

\* a store that mounts dependencies only when it mounts the atom
mountDependenciesNever(M, atom) == M

mountDependencies(M, atom) ==
    LET second(M1) == unmountGone(M1, atom, M1.st[atom].m.d, 1)
    IN IF M.st[atom].m.on /\ getPendingContinuablePromise(M, M.st[atom]) = 0
       THEN second(mountNew(M, atom, MapKeys(M.st[atom].d), 1))
       ELSE M

RECURSIVE mountEachOneWay(_, _, _, _)
\* a mountAtom that mounts its dependencies without entering itself in their
\* mounted dependents
mountEachOneWay(M, atom, keys, i) ==
    IF i > Len(keys) THEN M
    ELSE mountEachOneWay(Call(M, [op |-> "mountAtom", atom |-> keys[i]]),
                         atom, keys, i + 1)

\* a mountAtom that leaves its dependencies alone
mountEachNone(M, atom, keys, i) == M

\* mountAtom, "mount dependencies first"
mountEach(M, atom, keys, i) ==
    IF i > Len(keys) THEN M
    ELSE mountEach([Call(M, [op |-> "mountAtom", atom |-> keys[i]])
                      EXCEPT !.st[keys[i]].m.t = SetAdd(@, atom)],
                   atom, keys, i + 1)

\* a mountAtom that leaves the onMount hook out
addOnMountNever(M, atom) == M

\* mountAtom, `if (isActuallyWritableAtom(atom) && atom.onMount)`: the
\* function added to the pending functions captures the Mounted object just
\* made: [k, atom, id].
addOnMount(M, atom) ==
    IF isActuallyWritableAtom(atom) /\ onMount(atom) /= "none"
    THEN addPendingFunction(M, [k |-> "mount", atom |-> atom, id |-> M.mid])
    ELSE M

mountAtom(M, atom) ==
    LET hook(M3) == addOnMount(M3, atom)
        mounted(M2) ==
            hook([M2 EXCEPT !.st[atom].m =
                      [on |-> TRUE, l |-> <<>>, d |-> MapKeys(M2.st[atom].d),
                       t |-> <<>>, u |-> FALSE, id |-> M2.mid + 1],
                            !.mid = @ + 1,
                            !.mt = Append(@, atom)])
        dependencies(M1) == mounted(mountEach(M1, atom, MapKeys(M1.st[atom].d), 1))
    IN IF M.st[atom].m.on THEN M
       ELSE dependencies(Call(M, [op |-> "readAtomState", atom |-> atom, force |-> {}]))

\* unmountAtom, "unmount dependencies"
unmountEach(M, atom, keys, i) ==
    LET released(M1) ==
            [M1 EXCEPT !.st[keys[i]].m.t = IF M1.st[keys[i]].m.on THEN SetDel(@, atom) ELSE @]
    IN IF i > Len(keys) THEN M
       ELSE unmountEach(released(Call(M, [op |-> "unmountAtom", atom |-> keys[i]])),
                        atom, keys, i + 1)

\* unmountAtom, "abort pending promise": continuePromise(undefined, () => {})
\* does nothing, `if (nextPromise)` being false (part_001:84-96)
continueUndefined(M, atom) ==
    LET p == getPendingContinuablePromise(M, M.st[atom])
    IN IF p /= 0 THEN [M EXCEPT !.cp[p].und = TRUE] ELSE M

unmountAtom(M, atom) ==
    LET aborted(M1) == continueUndefined(M1, atom)
    IN
    IF /\ M.st[atom].m.on
       /\ Len(M.st[atom].m.l) = 0
       /\ ~\E i \in 1..Len(M.st[atom].m.t) : M.st[M.st[atom].m.t[i]].m.on
    THEN aborted(unmountEach([(IF M.st[atom].m.u
                       THEN addPendingFunction(M, [k |-> "cleanup", atom |-> atom,
                                                   id |-> M.st[atom].m.id])
                       ELSE M)
                        EXCEPT !.st[atom].m = NoMounted, !.unm = @ \cup {atom}],
                     atom, MapKeys(M.st[atom].d), 1))
    ELSE M

\* ------------------------------------------------------------ propagation

RECURSIVE AddAll(_, _, _)
AddAll(s, t, i) == IF i > Len(t) THEN s ELSE AddAll(SetAdd(s, t[i]), t, i + 1)

\* getDependents: m.t, then the atoms with a pending promise, then the
\* dependents recorded in the Pending of the running operation
getDependents(M, a) ==
    AddAll(AddAll(IF M.st[a].m.on THEN M.st[a].m.t ELSE <<>>, M.st[a].p, 1),
           getPendingDependents(M, a), 1)

RECURSIVE visit(_, _, _)
RECURSIVE visitEach(_, _, _, _, _)

\* vs = [marked: markedAtoms, top: topsortedAtoms]
visit(M, vs, n) ==
    IF n \in vs.marked THEN vs
    ELSE [visitEach(M, [vs EXCEPT !.marked = @ \cup {n}], n, getDependents(M, n), 1)
            EXCEPT !.top = Append(@, n)]

visitEach(M, vs, n, dependents, i) ==
    IF i > Len(dependents) THEN vs
    ELSE visitEach(M,
                   IF n /= dependents[i] THEN visit(M, vs, dependents[i]) ELSE vs,
                   n, dependents, i + 1)

\* a propagation that recomputes every atom it has marked
hasChangedDepsAlways(M, a, changedAtoms) == TRUE

hasChangedDeps(M, a, changedAtoms) ==
    \E i \in 1..Len(M.st[a].d) :
        M.st[a].d[i][1] /= a /\ M.st[a].d[i][1] \in changedAtoms

RECURSIVE recomputeEachUnforced(_, _, _, _, _)
\* Step 2 without isMarked: the caches of the atoms not yet reached are used
recomputeEachUnforced(M, top, i, markedAtoms, changedAtoms) ==
    LET a == top[i]
        next(M2, changed) ==
            recomputeEachUnforced(IF changed THEN addPendingAtom(M2, a) ELSE M2,
                                  top, i - 1, markedAtoms \ {a},
                                  IF changed THEN changedAtoms \cup {a} ELSE changedAtoms)
        epoch(M2) == next(M2, M.st[a].n /= M2.st[a].n)
    IN IF i < 1 THEN M
       ELSE IF hasChangedDeps(M, a, changedAtoms)
            THEN epoch(Call(Call(M, [op |-> "readAtomState", atom |-> a, force |-> {a}]),
                            [op |-> "mountDependencies", atom |-> a]))
            ELSE next(M, FALSE)

RECURSIVE recomputeEach(_, _, _, _, _)
\* Step 2: from the end of topsortedAtoms to its start
recomputeEach(M, top, i, markedAtoms, changedAtoms) ==
    LET a == top[i]
        next(M2, changed) ==
            recomputeEach(IF changed THEN addPendingAtom(M2, a) ELSE M2,
                          top, i - 1, markedAtoms \ {a},
                          IF changed THEN changedAtoms \cup {a} ELSE changedAtoms)
        \* prevEpochNumber !== aState.n
        epoch(M2) == next(M2, M.st[a].n /= M2.st[a].n)
    IN IF i < 1 THEN M
       ELSE IF hasChangedDeps(M, a, changedAtoms)
            THEN epoch(Call(Call(M, [op |-> "readAtomState", atom |-> a,
                                     force |-> markedAtoms]),
                            [op |-> "mountDependencies", atom |-> a]))
            ELSE next(M, FALSE)

RECURSIVE recomputeEdgeByEdge(_, _)
RECURSIVE recomputeEdges(_, _, _)
\* propagation without the topological sort: each dependent is recomputed
\* when an edge to it is followed
recomputeEdges(M, dependents, i) ==
    LET a == dependents[i]
        next(M2) ==
            recomputeEdges(IF M.st[a].n /= M2.st[a].n
                           THEN recomputeEdgeByEdge(addPendingAtom(M2, a), a)
                           ELSE M2,
                           dependents, i + 1)
    IN IF i > Len(dependents) THEN M
       ELSE next(Call(Call(M, [op |-> "readAtomState", atom |-> a, force |-> {a}]),
                      [op |-> "mountDependencies", atom |-> a]))

recomputeEdgeByEdge(M, atom) ==
    recomputeEdges(M, SetDel(getDependents(M, atom), atom), 1)

recomputeDependents(M, atom) ==
    LET sorted(vs) == recomputeEach(M, vs.top, Len(vs.top), vs.marked, {atom})
    IN sorted(visit(M, [marked |-> {}, top |-> <<>>], atom))

\* ------------------------------------------------------------- listeners
\* A listener re-reads with store.get the primitive atoms of the graph and
\* the atom it was registered for, and keeps what it saw.

RECURSIVE getEach(_, _, _)
getEach(M, atoms, seen) ==
    LET a == CHOOSE x \in atoms : TRUE
        next(g) == getEach(g.M, atoms \ {a}, seen @@ (a :> g.r))
    IN IF atoms = {} THEN [M |-> M, seen |-> seen]
       ELSE next(Call(M, [op |-> "readAtom", atom |-> a]))

Observed(M, atom) == (Scenario(M.scn) \cap {"a", "b"}) \cup {atom}

\* what a listener saw of atom x: nothing when x is not part of the graph
SeenOf(seen, x) == IF x \in DOMAIN seen THEN seen[x] ELSE NoResult

listener(M, atom, l) ==
    LET logged(g) ==
            [g.M EXCEPT !.log = Append(@, [l |-> l, atom |-> atom, inw |-> M.inw,
                                           a |-> SeenOf(g.seen, "a"),
                                           b |-> SeenOf(g.seen, "b"),
                                           self |-> g.seen[atom]])]
    IN logged(getEach(M, Observed(M, atom), <<>>))

RECURSIVE callListeners(_, _, _, _)
\* atomStates.forEach((atomState) => atomState.m?.l.forEach((l) => l()))
callListeners(M, atoms, i, j) ==
    IF i > Len(atoms) THEN M
    ELSE IF ~M.st[atoms[i]].m.on \/ j > Len(M.st[atoms[i]].m.l)
         THEN callListeners(M, atoms, i + 1, 1)
         ELSE callListeners(listener(M, atoms[i], M.st[atoms[i]].m.l[j]), atoms, i, j + 1)

\* observation: the atoms that have a Mounted object
MountedAtoms(M) == {x \in Atoms : M.st[x].m.on}

\* The pending function of mountAtom:
\*   const onUnmount = onMount((...args) => writeAtomState(pending, atom, ...args))
\*   if (onUnmount) mounted.u = onUnmount
\* mounted is the Mounted object mountAtom made, in use or not.
runOnMount(M, fn) ==
    LET returned(M1) ==
            IF M1.exc /= 0 THEN M1
            ELSE [M1 EXCEPT !.st[fn.atom].m.u =
                                IF M1.st[fn.atom].m.on /\ M1.st[fn.atom].m.id = fn.id
                                THEN TRUE ELSE @,
                            !.owe[fn.atom] = @ + 1]
        called(M0) ==
            IF onMount(fn.atom) = "set"
            THEN Call(M0, [op |-> "writeAtomState", atom |-> fn.atom, arg |-> Num(1)])
            ELSE M0
    IN returned(called([M EXCEPT !.hk = Append(@, [k |-> "mount", atom |-> fn.atom,
                                                   on |-> MountedAtoms(M)])]))

\* an onUnmount whose exception is swallowed
runOnUnmountQuiet(M, fn) ==
    [M EXCEPT !.hk = Append(@, [k |-> "cleanup", atom |-> fn.atom,
                                on |-> MountedAtoms(M)]),
              !.owe[fn.atom] = @ - 1]

\* The pending function of unmountAtom: the onUnmount function itself.
runOnUnmount(M, fn) ==
    LET called == [M EXCEPT !.hk = Append(@, [k |-> "cleanup", atom |-> fn.atom,
                                              on |-> MountedAtoms(M)]),
                            !.owe[fn.atom] = @ - 1]
    IN IF onMount(fn.atom) = "boom"
       THEN [called EXCEPT !.eid = @ + 1, !.exc = M.eid + 1]   \* throw new Error()
       ELSE called

RECURSIVE runFunctions(_, _, _)
\* functions.forEach((fn) => fn()): an exception ends the loop
runFunctions(M, functions, i) ==
    IF i > Len(functions) THEN M
    ELSE IF M.exc /= 0
    THEN [M EXCEPT !.lost = @ \o SubSeq(functions, i, Len(functions))]
    ELSE runFunctions(IF functions[i].k = "mount"
                      THEN runOnMount(M, functions[i])
                      ELSE runOnUnmount(M, functions[i]),
                      functions, i + 1)

RECURSIVE flushPending(_)
\* exc: an exception is propagating through the callers of flushPending
flushPending(M) ==
    LET functions(M1) == runFunctions(M1, M.pend.fn, 1)
    IN IF M.exc /= 0 \/ (Len(M.pend.as) = 0 /\ Len(M.pend.fn) = 0) THEN M
       ELSE flushPending(functions(callListeners([M EXCEPT !.pend = createPending],
                                                 M.pend.as, 1, 1)))

\* -------------------------------------------------------------- write path

\* a setter that propagates whether or not the value has changed
setterAlways(M, atom, a, v) ==
    flushPending(
      IF a = atom
      THEN recomputeDependents(
             addPendingAtom(mountDependencies(setAtomStateValueOrPromise(M, a, v), a), a), a)
      ELSE Call(M, [op |-> "writeAtomState", atom |-> a, arg |-> v]))

\* the setter passed to atom.write
setter(M, atom, a, v) ==
    LET \* if (!hasPrevValue || !Object.is(prevValue, aState.v))
        changed(M2) ==
            IF ~M.st[a].hasV \/ M.st[a].v /= M2.st[a].v
            THEN recomputeDependents(addPendingAtom(M2, a), a)
            ELSE M2
    IN flushPending(
         IF a = atom
         THEN changed(mountDependencies(setAtomStateValueOrPromise(M, a, v), a))
         ELSE Call(M, [op |-> "writeAtomState", atom |-> a, arg |-> v]))

\* a getter of writeAtomState that returns what the atom state holds
writeGetterCached(M, a) ==
    [M EXCEPT !.seen = Append(@, [atom |-> a, r |-> returnAtomValue(M.st[a]),
                                  ideal |-> Ideal(M, a)])]

\* the getter passed to atom.write:
\* returnAtomValue(readAtomState(pending, a, context))
writeGetter(M, a) ==
    LET returned(M1) ==
            [M1 EXCEPT !.seen = Append(@, [atom |-> a, r |-> returnAtomValue(M1.st[a]),
                                           ideal |-> Ideal(M1, a)])]
    IN returned(Call(M, [op |-> "readAtomState", atom |-> a, force |-> {}]))

\* atom.write(getter, setter, ...args) of each atom definition; inw counts
\* the write functions that have not returned
writeAtomState(M, atom, arg) ==
    LET def == AtomDef(atom)
        set(M1, a) == Call(M1, [op |-> "setter", atom |-> atom, a |-> a, arg |-> arg])
        get(M1, a) == Call(M1, [op |-> "writeGetter", a |-> a])
        write(M0) ==
            CASE def.wr = "self" -> set(M0, atom)
              [] def.wr = "setget" -> get(get(set(M0, def.x), def.x), def.y)
              [] def.wr = "both" -> set(set(M0, def.x), def.y)
              [] def.wr = "to"   -> set(M0, def.x)
              \* the async function runs to its await and returns its promise
              [] def.wr = "later" ->
                   [M0 EXCEPT !.wq = Append(@, [atom |-> atom, arg |-> arg, done |-> FALSE])]
    IN [write([M EXCEPT !.inw = @ + 1]) EXCEPT !.inw = @ - 1]

\* store.set
writeAtom(M, atom, arg) ==
    flushPending(writeAtomState([M EXCEPT !.pend = createPending], atom, arg))

\* store.set(atom, promise) for an atom that holds promises: the promise is
\* one the application has made already or a new one, to be fulfilled with res
writePromise(M, atom, promise, res) ==
    writeAtom(IF promise > Len(M.raw)
              THEN [M EXCEPT !.raw = Append(@, NewRaw(res, TRUE, atom)),
                             !.held = @ \cup {promise}]
              ELSE M,
              atom, Raw(promise))

\* store.sub, up to the return of the unsubscribe function
subscribeAtom(M, atom, l) ==
    LET listeners(M1) ==
            IF M1.exc /= 0 THEN M1 ELSE [M1 EXCEPT !.st[atom].m.l = SetAdd(@, l)]
    IN listeners(flushPending(mountAtom([M EXCEPT !.pend = createPending], atom)))

\* the function store.sub returned
unsubscribe(M, atom, l) ==
    flushPending(unmountAtom([M EXCEPT !.st[atom].m.l = SetDel(@, l),
                                       !.pend = createPending], atom))

\* the function store.sub returned, called again: `listeners` is the set of
\* the Mounted object the atom had when store.sub ran (cur: it is still the
\* atom's Mounted object)
unsubscribeAgain(M, atom, l, cur) ==
    flushPending(unmountAtom([M EXCEPT !.st[atom].m.l = IF cur THEN SetDel(@, l) ELSE @,
                                       !.pend = createPending], atom))

\* ---------------------------------------------------------- promise jobs

RECURSIVE deletePending(_, _, _)
\* the then-callbacks of addPendingContinuablePromiseToDependency
deletePending(M, atom, regs) ==
    LET a == CHOOSE x \in regs : TRUE
    IN IF regs = {} THEN M
       ELSE deletePending([M EXCEPT !.st[a].p = SetDel(@, atom)], atom, regs \ {a})

\* a completePromise that does not look at atomState.m
completePromiseUnguarded(M, atom) ==
    flushPending(unmountGone(mountNew([M EXCEPT !.pend = createPending], atom,
                                      MapKeys(M.st[atom].d), 1),
                             atom, M.st[atom].m.d, 1))

\* completePromise of readAtomState (part_001:458-464)
completePromise(M, atom) ==
    IF M.st[atom].m.on
    THEN flushPending(mountDependencies([M EXCEPT !.pend = createPending], atom))
    ELSE M

RECURSIVE settleEach(_, _, _)
\* onFulfilled(me)/onRejected(me) of the continuable promises that registered
\* them on the promise: `if (curr === me)`, then the then-callbacks of the
\* continuable promise.  (The complete callback of a continuable promise made
\* by store.set does nothing; neither does completePromise for an atom
\* without dependencies.)
settleEach(M, promise, p) ==
    LET settled ==
            deletePending(
              completePromise(
                [M EXCEPT !.cp[p].status =
                              IF M.raw[promise].ok THEN "fulfilled" ELSE "rejected",
                          !.cp[p].value = M.raw[promise].res],
                M.cp[p].atom),
              M.cp[p].atom, M.cp[p].regs)
    IN IF p > Len(M.cp) THEN M
       ELSE settleEach(IF M.cp[p].curr = promise THEN settled ELSE M, promise, p + 1)

\* A promise made by a read function or by the application settles.
settlePromise(M, promise) ==
    settleEach([M EXCEPT !.raw[promise].done = TRUE], promise, 1)

\* An asynchronous write function resumes after its await: set(atom, arg)
\* with the setter and the Pending of the store.set that started it.
resumeWrite(M, i) ==
    [Call([M EXCEPT !.pend = createPending, !.inw = @ + 1, !.wq[i].done = TRUE],
          [op |-> "setter", atom |-> M.wq[i].atom, a |-> M.wq[i].atom, arg |-> M.wq[i].arg])
       EXCEPT !.inw = @ - 1]

\* the accessor passed to atom.read, called after the read function has
\* returned its promise (isSync is false, part_001:410-419); cur: the calling
\* computation is the latest one of the atom
lateGetter(M, atom, a, cur) ==
    LET result(M2) ==
            IF M2.st[a].hasE THEN Throw(M2, M2.st[a].e) ELSE Ret(M2, M2.st[a].v)
        mounted(M1) ==
            result(flushPending(mountDependencies(
                     [addDependency(M1, atom, a)
                        EXCEPT !.rs[atom] = IF cur THEN @ \cup {a} ELSE @],
                     atom)))
    IN mounted(Call([M EXCEPT !.pend = createPending],
                    [op |-> "readAtomState", atom |-> a, force |-> {}]))

\* An asynchronous read function resumes after its await and returns: the
\* promise it returned at its await is now resolved with its result.
resumeRead(M, i) ==
    LET returned(g, v) ==
            [g.M EXCEPT !.raw[M.rq[i].raw].wait = FALSE,
                        !.raw[M.rq[i].raw].ok = g.ok,
                        !.raw[M.rq[i].raw].res = IF g.ok THEN Num(v + g.v.x) ELSE Num(g.e),
                        !.rq[i].done = TRUE]
    IN IF M.rq[i].v % 2 = 1
       THEN returned(lateGetter(M, M.rq[i].atom, AtomDef(M.rq[i].atom).y, M.rq[i].cur),
                     M.rq[i].v)
       ELSE returned(Ret(M, Num(0)), M.rq[i].v)

\* ------------------------------------------------------------- dispatch

Call(M, c) ==
    CASE c.op = "readAtomState" -> readAtomState(M, c.atom, c.force)
      [] c.op = "getter" -> getter(M, c.atom, c.a, c.force)
      [] c.op = "setter" -> setter(M, c.atom, c.a, c.arg)
      [] c.op = "writeGetter" -> writeGetter(M, c.a)
      [] c.op = "readAtom" -> readAtom(M, c.atom)
      [] c.op = "mountAtom" -> mountAtom(M, c.atom)
      [] c.op = "unmountAtom" -> unmountAtom(M, c.atom)
      [] c.op = "mountDependencies" -> mountDependencies(M, c.atom)
      [] c.op = "writeAtomState" -> writeAtomState(M, c.atom, c.arg)
      [] c.op = "writeAtom" -> writeAtom(M, c.atom, c.arg)
      [] c.op = "writePromise" -> writePromise(M, c.atom, c.promise, c.res)
      [] c.op = "subscribeAtom" -> subscribeAtom(M, c.atom, c.l)
      [] c.op = "unsubscribe" -> unsubscribe(M, c.atom, c.l)
      [] c.op = "unsubscribeAgain" -> unsubscribeAgain(M, c.atom, c.l, c.cur)
      [] c.op = "settlePromise" -> settlePromise(M, c.promise)
      [] c.op = "resumeWrite" -> resumeWrite(M, c.i)
      [] c.op = "resumeRead" -> resumeRead(M, c.i)

\* ------------------------------------------------------ part_003: records
\* The store of src/unnamed/part_003: State = {a, m, w}.  The functions get
\* a State and return the next one; `a` and `m` are shared by every copy of
\* a State and changed by commitState only, `w` is the work in progress.

\* Map.prototype.get, with the value returned for a missing key
MapGet(d, k, none) ==
    IF MapHas(d, k) THEN (CHOOSE p \in Range(d) : p[1] = k)[2] ELSE none

\* Map.prototype.delete
MapDel(d, k) == SelectSeq(d, LAMBDA p : p[1] /= k)

\* has = FALSE: no atom state (undefined); rp, wp: a promise id, 0 for none
NoAtomState ==
    [has |-> FALSE, v |-> Undef, hasRe |-> FALSE, re |-> 0,
     rp |-> 0, wp |-> 0, r |-> 0, d |-> <<>>]

\* pendingPromises: on when the argument is passed (it is optional)
NoPendingPromises == [on |-> FALSE, s |-> <<>>]

\* createState(), with the promises the read and write functions have made
createState ==
    [a      |-> [x \in Atoms |-> NoAtomState],
     m      |-> [x \in Atoms |-> [has |-> FALSE, s |-> <<>>]],
     w      |-> <<>>,
     rps    |-> <<>>,    \* promises returned by asynchronous read functions
     wps    |-> <<>>,    \* promises returned by asynchronous write functions
     issued |-> 0,       \* observation: calls of writeAtom on an atom with
                         \* an asynchronous write function
     pp     |-> NoPendingPromises,  \* pendingPromises of the running writeAtom
     eid    |-> 0,       \* Error objects made so far
     exc    |-> 0,       \* the Error that is propagating
     ret    |-> [k |-> "void", e |-> 0],  \* what the last writeAtom returned
     scn    |-> "async"]

copyState(V) == [V EXCEPT !.w = <<>>]

getAtomState(V, atom) ==
    IF MapHas(V.w, atom) THEN MapGet(V.w, atom, NoAtomState) ELSE V.a[atom]

\* wipAtomState: the copy of the atom state that the caller goes on to assign
wipAtomState(V, atom) ==
    IF getAtomState(V, atom).has
    THEN getAtomState(V, atom)
    ELSE [NoAtomState EXCEPT !.has = TRUE,
                             !.v = IF hasInitialValue(atom) THEN AtomDef(atom).init
                                                            ELSE Undef]

\* nextState of wipAtomState, the copy holding what the caller assigned
wipState(V, atom, atomState) == [V EXCEPT !.w = MapSet(@, atom, atomState)]

v_addDependency(V, atom, dependency) ==
    IF getAtomState(V, dependency).has
    THEN IF MapGet(wipAtomState(V, atom).d, dependency, -1) = getAtomState(V, dependency).r
         THEN V
         ELSE wipState(V, atom,
                       [wipAtomState(V, atom)
                          EXCEPT !.d = MapSet(@, dependency, getAtomState(V, dependency).r),
                                 !.r = @ + 1])
    ELSE wipState(V, atom, wipAtomState(V, atom))

\* dependencies: [on, s], on = FALSE for `false`.  V is the nextState that
\* holds the copy of the atom state.
replaceDependencies(V, atom, dependencies) ==
    IF dependencies.on
    THEN wipState(V, atom,
           [getAtomState(V, atom) EXCEPT !.d =
              [i \in 1..Len(dependencies.s) |->
                 <<dependencies.s[i],
                   IF getAtomState(V, dependencies.s[i]).has
                   THEN getAtomState(V, dependencies.s[i]).r ELSE 0>>]])
    ELSE V

\* promise = 0: no promise passed
setAtomValue(V, atom, value, dependencies, promise) ==
    IF promise /= 0 /\ promise /= wipAtomState(V, atom).rp
    THEN V
    ELSE replaceDependencies(
           wipState(V, atom, [wipAtomState(V, atom) EXCEPT !.hasRe = FALSE, !.re = 0,
                                                           !.rp = 0,
                                                           !.v = value,
                                                           !.r = @ + 1]),
           atom, dependencies)

setAtomReadError(V, atom, error, dependencies, promise) ==
    IF promise /= 0 /\ promise /= wipAtomState(V, atom).rp
    THEN V
    ELSE replaceDependencies(
           wipState(V, atom, [wipAtomState(V, atom) EXCEPT !.rp = 0,
                                                           !.hasRe = TRUE, !.re = error,
                                                           !.r = @ + 1]),
           atom, dependencies)

setAtomReadPromise(V, atom, promise, dependencies) ==
    replaceDependencies(
      wipState(V, atom, [wipAtomState(V, atom)
                           EXCEPT !.rp = promise,
                                  !.r = @ + 1,
                                  !.v = IF hasInitialValue(atom) THEN AtomDef(atom).init
                                                                 ELSE @]),
      atom, dependencies)

\* promise = 0: `delete atomState.wp`
setAtomWritePromise(V, atom, promise) ==
    wipState(V, atom, [wipAtomState(V, atom) EXCEPT !.wp = promise, !.r = @ + 1])

\* ---------------------------------------------------- part_003: functions

NoDependencies == [on |-> FALSE, s |-> <<>>]

\* commitState, updateDependentsMap: one entry of state.w
updateDependentsOf(V, atom, atomState) ==
    LET prevDependencies == IF V.a[atom].has THEN MapKeys(V.a[atom].d) ELSE <<>>
        dependencies == MapKeys(atomState.d)
    IN [V EXCEPT !.m = [a \in Atoms |->
          IF a \in Range(prevDependencies) /\ a \notin Range(dependencies)
          THEN [has |-> TRUE, s |-> SetDel(V.m[a].s, atom)]
          ELSE IF a \in Range(dependencies) /\ a \notin Range(prevDependencies)
               THEN [has |-> TRUE, s |-> SetAdd(V.m[a].s, atom)]
               ELSE V.m[a]]]

RECURSIVE updateDependentsMapEach(_, _)
updateDependentsMapEach(V, i) ==
    IF i > Len(V.w) THEN V
    ELSE updateDependentsMapEach(updateDependentsOf(V, V.w[i][1], V.w[i][2]), i + 1)

updateDependentsMap(V) == updateDependentsMapEach(V, 1)

commitState(V) ==
    IF Len(V.w) > 0
    THEN [updateDependentsMap(V)
            EXCEPT !.a = [x \in Atoms |-> IF MapHas(V.w, x)
                                          THEN MapGet(V.w, x, NoAtomState) ELSE @[x]],
                   !.w = <<>>]
    ELSE V

\* The setState given to the functions: the next state becomes the state of
\* the store and is committed at once.
setState(V) == commitState(V)

\* if (nextState.w.size) { setState(nextState) }
setStateIfWip(V) == IF Len(V.w) > 0 THEN setState(V) ELSE V

\* The argument of waitForAll: an array of atoms, or an object of atoms with
\* its own property names in the order of Object.getOwnPropertyNames.
WaitForAllArg(atom) ==
    CASE atom = "wfa" -> [isArray |-> TRUE, names |-> <<>>, atoms |-> <<"asy", "bad">>]
      [] atom = "wfo" -> [isArray |-> FALSE, names |-> <<"p", "q">>,
                          atoms |-> [p |-> "asy", q |-> "bad"]]

\* unwrapAtoms (part_005:49-56)
unwrapAtoms(atoms) ==
    IF atoms.isArray THEN atoms.atoms
    ELSE [i \in 1..Len(atoms.names) |-> atoms.atoms[atoms.names[i]]]

\* a wrapResults that gives the results in the opposite order
wrapResultsBackwards(atoms, results) ==
    LET n == Len(results)
    IN IF atoms.isArray
       THEN [k |-> "array", x |-> [i \in 1..n |-> results[n + 1 - i]]]
       ELSE [k |-> "object",
             x |-> [key \in Range(atoms.names) |->
                      results[n + 1 - (CHOOSE i \in 1..n : atoms.names[i] = key)]]]

\* wrapResults (part_005:58-69): the array of the results, or the object that
\* has results[idx] under the idx-th own property name
wrapResults(atoms, results) ==
    IF atoms.isArray
    THEN [k |-> "array", x |-> results]
    ELSE [k |-> "object",
          x |-> [key \in Range(atoms.names) |->
                   results[CHOOSE i \in 1..Len(atoms.names) : atoms.names[i] = key]]]

\* waitForAll, the callback of unwrappedAtoms.map (part_005:22-32), the
\* accessor having read anAtom (part_003:228-258): V1 is the next state and
\* aState the state of anAtom in it.  A read error is thrown on, a read
\* promise is kept in `promises`, a value is returned.
mapped(g, anAtom, V1, aState) ==
    IF aState.hasRe
    THEN [g EXCEPT !.V = V1, !.deps = SetAdd(@, anAtom),
                   !.hasRe = TRUE, !.re = aState.re]
    ELSE IF aState.rp /= 0
         THEN [g EXCEPT !.V = V1, !.deps = SetAdd(@, anAtom),
                        !.promises = Append(@, aState.rp),
                        !.values = Append(@, Undef)]
         ELSE [g EXCEPT !.V = V1, !.deps = SetAdd(@, anAtom),
                        !.values = Append(@, aState.v)]

\* what the asynchronous read functions resolve with, v being the value of a
\* they have read: asy with v + 10, bad with v + 20
asyncValue(atom, v) == IF atom = "bad" THEN Num(v.x + 20) ELSE Num(v.x + 10)

\* bad rejects when it has read 0
asyncOk(atom, v) == atom /= "bad" \/ v.x /= 0

RECURSIVE v_readAtomState(_, _, _)
\* The read functions used with this store are atom(0)'s,
\*   async (get) => { const v = get(a); await fetched; return v + 10 },
\* whose get(a) never throws, a being a primitive atom, and
\*   (get) => get(asy) + 1
\* rps[i].k is "fn" for the promise an asynchronous read function returned,
\* "thrown" for errorOrPromise.then(...), the promise `on` having been thrown.
v_readAtomState(V, atom, force) ==
    LET atomState == getAtomState(V, atom)
        upToDate ==
            /\ atomState.has
            /\ \A i \in 1..Len(atomState.d) :
                  /\ getAtomState(V, atomState.d[i][1]).has
                  /\ getAtomState(V, atomState.d[i][1]).r = atomState.d[i][2]
        \* V1: nextState once get(x) has returned; the function runs to its
        \* await and returns a promise; "add dependency temporarily"
        pending(V1, x) ==
            v_addDependency(
              setAtomReadPromise(
                [V1 EXCEPT !.rps = Append(@, [atom |-> atom, k |-> "fn", on |-> 0,
                                              all |-> <<>>,
                                              res |-> asyncValue(atom, getAtomState(V1, x).v),
                                              ok |-> asyncOk(atom, getAtomState(V1, x).v),
                                              done |-> FALSE,
                                              deps |-> <<x>>, thens |-> <<>>])],
                atom, Len(V1.rps) + 1, NoDependencies),
              atom, x)
        \* V1: nextState once the accessor has read x; the catch of a thrown
        \* promise (part_003:309-321) attaches the callback that recomputes
        thrown(V1, x) ==
            setAtomReadPromise(
              [V1 EXCEPT !.rps = Append([@ EXCEPT ![getAtomState(V1, x).rp].thens =
                                            Append(@, [k |-> "recompute", atom |-> atom,
                                                       t |-> Len(V1.rps) + 1])],
                                        [atom |-> atom, k |-> "thrown",
                                         on |-> getAtomState(V1, x).rp,
                                         all |-> <<>>,
                                         res |-> Undef, ok |-> TRUE, done |-> FALSE,
                                         deps |-> <<x>>, thens |-> <<>>])],
              atom, Len(V1.rps) + 1, [on |-> TRUE, s |-> <<x>>])
        sync(V1, x) ==
            IF getAtomState(V1, x).hasRe
            THEN setAtomReadError(V1, atom, getAtomState(V1, x).re,
                                  [on |-> TRUE, s |-> <<x>>], 0)
            ELSE IF getAtomState(V1, x).rp /= 0
                 THEN thrown(V1, x)
                 ELSE setAtomValue(V1, atom, Num(getAtomState(V1, x).v.x + 1),
                                   [on |-> TRUE, s |-> <<x>>], 0)
        \* The read function waitForAll gives its atom (part_005:20-39); g is
        \* its run: nextState, the atoms the accessor was called with, the
        \* array `promises` without its holes, the array `values` and the
        \* Error thrown out of the callback of map.
        input(g, x) ==
            LET through(V1) == mapped(g, x, V1, getAtomState(V1, x))
            IN IF g.hasRe THEN g ELSE through(v_readAtomState(g.V, x, FALSE))
        \* throw Promise.all(promises), caught at part_003:309-321: the promise
        \* of Promise.all follows the promises listed, the callback that
        \* recomputes follows the promise of Promise.all
        allThrown(V1, promises, deps) ==
            setAtomReadPromise(
              [V1 EXCEPT !.rps =
                 [i \in 1..Len(V1.rps) |->
                    IF i \in Range(promises)
                    THEN [V1.rps[i] EXCEPT !.thens =
                            Append(@, [k |-> "all", atom |-> atom, t |-> Len(V1.rps) + 1])]
                    ELSE V1.rps[i]]
                 \o <<[atom |-> atom, k |-> "all", on |-> 0, all |-> promises,
                       res |-> Undef, ok |-> TRUE, done |-> FALSE, deps |-> deps,
                       thens |-> <<[k |-> "recompute", atom |-> atom,
                                   t |-> Len(V1.rps) + 2]>>],
                      [atom |-> atom, k |-> "thrown", on |-> Len(V1.rps) + 1,
                       all |-> <<>>, res |-> Undef, ok |-> TRUE, done |-> FALSE,
                       deps |-> deps, thens |-> <<>>]>>],
              atom, Len(V1.rps) + 2, [on |-> TRUE, s |-> deps])
        waited(g) ==
            IF g.hasRe
            THEN setAtomReadError(g.V, atom, g.re, [on |-> TRUE, s |-> g.deps], 0)
            ELSE IF Len(g.promises) > 0
                 THEN allThrown(g.V, g.promises, g.deps)
                 ELSE setAtomValue(g.V, atom, wrapResults(WaitForAllArg(atom), g.values),
                                   [on |-> TRUE, s |-> g.deps], 0)
    IN IF ~force /\ upToDate
       THEN V
       ELSE CASE AtomDef(atom).rd = "self" ->
                   setAtomValue(V, atom, wipAtomState(V, atom).v,
                                [on |-> TRUE, s |-> <<atom>>], 0)
              [] AtomDef(atom).rd = "async" ->
                   pending(v_readAtomState(V, AtomDef(atom).x, FALSE), AtomDef(atom).x)
              [] AtomDef(atom).rd = "inc" ->
                   sync(v_readAtomState(V, AtomDef(atom).x, FALSE), AtomDef(atom).x)
              [] AtomDef(atom).rd = "all" ->
                   waited(input(input([V |-> V, deps |-> <<>>, promises |-> <<>>,
                                       values |-> <<>>, hasRe |-> FALSE, re |-> 0],
                                      unwrapAtoms(WaitForAllArg(atom))[1]),
                                unwrapAtoms(WaitForAllArg(atom))[2]))

\* readAtom: the atom state is returned, the next state is not
v_readAtom(V, atom) ==
    LET result(V1) == [M |-> [V EXCEPT !.rps = V1.rps], r |-> getAtomState(V1, atom)]
    IN result(v_readAtomState(V, atom, FALSE))

RECURSIVE updateDependentsState(_, _)
RECURSIVE updateEachDependent(_, _, _, _)

updateEachDependent(V, atom, dependents, i) ==
    LET dependent == dependents[i]
        \* V1: nextNextState of readAtomState(nextState, setState, dependent, true)
        afterRead(V1) ==
            IF getAtomState(V1, dependent).rp /= 0
            THEN [V1 EXCEPT !.rps[getAtomState(V1, dependent).rp].thens =
                              Append(@, [k |-> "update", atom |-> dependent, t |-> 0])]
            ELSE updateDependentsState(V1, dependent)
    IN IF i > Len(dependents) THEN V
       ELSE IF dependent = atom \/ dependent \notin Atoms \/ ~getAtomState(V, dependent).has
            THEN updateEachDependent(V, atom, dependents, i + 1)
            ELSE updateEachDependent(afterRead(v_readAtomState(V, dependent, TRUE)),
                                     atom, dependents, i + 1)

updateDependentsState(V, atom) ==
    IF ~V.m[atom].has THEN V
    ELSE updateEachDependent(V, atom, V.m[atom].s, 1)

\* if (pendingPromises) { pendingPromises.push(promise) }
v_pushPending(V, promise) ==
    IF V.pp.on THEN [V EXCEPT !.pp.s = Append(@, promise)] ELSE V

\* the catch of writeAtomState (part_003:573-583), e being a new Error
v_catch(V) ==
    IF V.pp.on /\ Len(V.pp.s) > 0
    THEN [V EXCEPT !.eid = @ + 1,
                   !.pp.s = Append(@, [k |-> "rejected", e |-> V.eid + 1])]
    ELSE [V EXCEPT !.eid = @ + 1, !.exc = V.eid + 1]

RECURSIVE v_writeAtomState(_, _, _, _)
\* wid: observation, the number of the writeAtom call the update came with
v_writeAtomState(V, atom, update, wid) ==
    LET \* the setter for a !== atom, isSync: writeAtomState(nextState, setState,
        \* a, v), without pendingPromises
        other(V1, a) ==
            [v_writeAtomState([V1 EXCEPT !.pp.on = FALSE], a, update, wid)
               EXCEPT !.pp.on = V1.pp.on]
    IN IF getAtomState(V, atom).has /\ getAtomState(V, atom).wp /= 0
       THEN \* atomState.wp.then(() => writeAtomState(copyState(state), ...))
            v_pushPending(
              [V EXCEPT !.wps[getAtomState(V, atom).wp].waiters =
                            Append(@, [atom |-> atom, update |-> update, wid |-> wid])],
              [k |-> "then", wp |-> getAtomState(V, atom).wp])
       ELSE CASE AtomDef(atom).wr = "self" ->
                   updateDependentsState(setAtomValue(V, atom, update, NoDependencies, 0),
                                         atom)
              \* the async function runs to its await and returns its promise;
              \* wp is promiseOrVoid.then(...), named by the same number
              [] AtomDef(atom).wr = "later" ->
                   v_pushPending(
                     setAtomWritePromise(
                       [V EXCEPT !.wps = Append(@, [atom |-> atom, update |-> update,
                                                    wid |-> wid, done |-> FALSE,
                                                    ok |-> TRUE, waiters |-> <<>>])],
                       atom, Len(V.wps) + 1),
                     [k |-> "write", wp |-> Len(V.wps) + 1])
              \* (get, set, v) => { set(x, v); throw new Error() }
              [] AtomDef(atom).wr = "setthrow" -> v_catch(other(V, AtomDef(atom).x))
              \* (get, set, v) => { throw new Error() }
              [] AtomDef(atom).wr = "throw" -> v_catch(V)

\* the Error the promise writeAtom returns is rejected with so far: 0, none
Rejection(pendingPromises) ==
    IF \E i \in 1..Len(pendingPromises) : pendingPromises[i].k = "rejected"
    THEN pendingPromises[CHOOSE i \in 1..Len(pendingPromises) :
                            pendingPromises[i].k = "rejected"].e
    ELSE 0

\* a writeAtom that calls setState in a finally
v_writeAtomFinally(V, atom, update) ==
    LET wid == IF AtomDef(atom).wr = "self" THEN 0 ELSE V.issued + 1
        returned(V1) ==
            [setStateIfWip(V1)
               EXCEPT !.pp = NoPendingPromises,
                      !.ret = IF V1.exc /= 0 THEN [k |-> "thrown", e |-> V1.exc]
                              ELSE IF Len(V1.pp.s) > 0
                              THEN [k |-> "promise", e |-> Rejection(V1.pp.s)]
                              ELSE [k |-> "void", e |-> 0]]
    IN returned(v_writeAtomState(
                  copyState([V EXCEPT !.issued = IF wid = 0 THEN @ ELSE @ + 1,
                                      !.pp = [on |-> TRUE, s |-> <<>>],
                                      !.exc = 0]),
                  atom, update, wid))

v_writeAtom(V, atom, update) ==
    LET wid == IF AtomDef(atom).wr = "self" THEN 0 ELSE V.issued + 1
        returned(V1) ==
            IF V1.exc /= 0
            \* the exception passes through writeAtom: setState is not called
            THEN [V EXCEPT !.wps = V1.wps, !.eid = V1.eid, !.issued = V1.issued,
                           !.exc = V1.exc, !.ret = [k |-> "thrown", e |-> V1.exc]]
            ELSE [setStateIfWip(V1)
                    EXCEPT !.pp = NoPendingPromises,
                           !.ret = IF Len(V1.pp.s) > 0
                                   THEN [k |-> "promise", e |-> Rejection(V1.pp.s)]
                                   ELSE [k |-> "void", e |-> 0]]
    IN returned(v_writeAtomState(
                  copyState([V EXCEPT !.issued = IF wid = 0 THEN @ ELSE @ + 1,
                                      !.pp = [on |-> TRUE, s |-> <<>>],
                                      !.exc = 0]),
                  atom, update, wid))

\* ------------------------------------------------ part_003: promise jobs

RECURSIVE propagateEach(_, _)
\* The callbacks attached to a read promise that is fulfilled, run in the
\* order they were attached in:
\*   update     that of updateDependentsState (part_003:449-457)
\*   recompute  that of the catch of readAtomState (part_003:311-321); the
\*              promise it made, t, is fulfilled once it has returned and
\*              the callbacks attached to t join the queue
propagateEach(V, thens) ==
    LET cb == Head(thens)
        updated(V1) == propagateEach(V1, Tail(thens))
        recomputed(V1) ==
            propagateEach([V1 EXCEPT !.rps[cb.t].done = TRUE],
                          Tail(thens) \o V1.rps[cb.t].thens)
        \* the callback Promise.all has attached: the promise of Promise.all
        \* is fulfilled when every promise listed is
        all ==
            IF \A i \in Range(V.rps[cb.t].all) : V.rps[i].done
            THEN propagateEach([V EXCEPT !.rps[cb.t].done = TRUE],
                               Tail(thens) \o V.rps[cb.t].thens)
            ELSE propagateEach(V, Tail(thens))
    IN IF Len(thens) = 0 THEN V
       ELSE CASE cb.k = "update" ->
                   updated(setStateIfWip(updateDependentsState(copyState(V), cb.atom)))
              [] cb.k = "all" -> all
              [] cb.k = "recompute" ->
                   recomputed(setStateIfWip(v_readAtomState(copyState(V), cb.atom, TRUE)))

\* The promise of a read function settles: the callback of readAtomState
\* (part_003:279-304) runs, then the callbacks attached to atomState.rp.
settleRead(V, promise) ==
    LET p == V.rps[promise]
        dependencies == [on |-> TRUE, s |-> p.deps]
        settled(V1) ==
            IF p.ok
            THEN setAtomValue(V1, p.atom, p.res, dependencies, promise)
            ELSE setAtomReadError(V1, p.atom, promise, dependencies, promise)
    IN propagateEach(
         setStateIfWip(settled(copyState([V EXCEPT !.rps[promise].done = TRUE]))),
         p.thens)

RECURSIVE replayEach(_, _, _)
\* atomState.wp.then(...) of the writes deferred on a write promise
replayEach(V, waiters, i) ==
    IF i > Len(waiters) THEN V
    ELSE replayEach(
           setStateIfWip(v_writeAtomState(copyState(V), waiters[i].atom,
                                          waiters[i].update, waiters[i].wid)),
           waiters, i + 1)

\* The promise awaited by an asynchronous write function settles.  Fulfilled:
\* the function goes on with set(atom, update) and returns, the callback that
\* deletes wp runs (part_003:565-570), then the deferred writes.  Rejected:
\* the function throws; promiseOrVoid and wp are rejected and none of their
\* then-callbacks runs.
finishWrite(V, promise, ok) ==
    LET p == V.wps[promise]
        set(V1) ==
            setStateIfWip(updateDependentsState(
                            setAtomValue(copyState(V1), p.atom, p.update, NoDependencies, 0),
                            p.atom))
        clear(V2) == setStateIfWip(setAtomWritePromise(copyState(V2), p.atom, 0))
    IN IF ok
       THEN replayEach(clear(set([V EXCEPT !.wps[promise].done = TRUE])), p.waiters, 1)
       ELSE [V EXCEPT !.wps[promise].done = TRUE, !.wps[promise].ok = FALSE]

\* ------------------------------------------------- Provider.ts: records
\* The Provider of src/src/core/Provider.ts: State = {s, d} is immutable, a
\* State object is the record and `id` tells apart two objects with the same
\* content.  The atom states are those of part_003 (v: value, rp: readP,
\* wp: writeP, r: rev, d: deps).

\* the state of useState at the first render: initialValues = [[tg, 0]]
InitialState ==
    [id |-> 0,
     s  |-> [x \in Atoms |-> IF x = "tg"
                             THEN [NoAtomState EXCEPT !.has = TRUE, !.v = Num(0)]
                             ELSE NoAtomState],
     d  |-> [x \in Atoms |-> [has |-> FALSE, s |-> <<>>]]]

\* The Provider once mounted: the first layout effect has run.
NewProvider ==
    [state  |-> InitialState,   \* the state of the last render
     updq   |-> <<>>,           \* React's queue of the setStateOrig calls
     last   |-> InitialState,   \* lastStateRef.current
     valid  |-> TRUE,           \* isLastStateValidRef.current
     pmap   |-> <<>>,           \* pendingStateMap
     thunks |-> <<>>,           \* writeThunkQueueRef.current
     micro  |-> <<>>,           \* the microtask queue
     eff    |-> FALSE,          \* the effect of the last render has yet to run
     wps    |-> <<>>,           \* promises returned by asynchronous write functions
     sid    |-> 0,              \* State objects made by `{ ...prev }`
     calls  |-> <<>>,           \* per call of actions.write: isSync, the length
                                \* of pendingPromises, the Error the promise
                                \* returned is rejected with, what was returned
     eid    |-> 0,              \* Error objects made so far
     exc    |-> 0,              \* the Error that is propagating
     cache  |-> [x \in Atoms |-> NoAtomState],   \* atomStateCache
     rps    |-> <<>>,           \* promises of the read functions
     users  |-> {},             \* the useAtom calls of the mounted components
     nid    |-> 0,              \* symbols made by useAtom so far
     scn    |-> "awrite",       \* the atoms in use (see Scenario)
     issued |-> 0]              \* observation: calls of actions.write

\* partial: the fields to assign; prevPromise = 0: none passed
updateAtomState(prevState, atom, partial, prevPromise) ==
    LET atomState == IF prevState.s[atom].has
                     THEN prevState.s[atom]
                     ELSE [NoAtomState EXCEPT !.has = TRUE]
    IN IF prevPromise /= 0 /\ prevPromise /= atomState.rp
       THEN prevState
       ELSE [prevState EXCEPT !.s[atom] =
               [f \in DOMAIN atomState |->
                  IF f = "r" THEN atomState.r + 1
                  ELSE IF f \in DOMAIN partial THEN partial[f] ELSE atomState[f]]]

\* updateDependentsState (Provider.ts:344-391).  The dependents of an atom
\* are the symbols of the useAtom calls, the atom itself and the atoms that
\* read it; the first two are skipped and no atom used with this Provider is
\* read by another atom.
p_updateDependentsState(prevState, atom) ==
    IF ~prevState.d[atom].has
    THEN prevState
    ELSE [prevState EXCEPT !.d[atom].s =
            SelectSeq(@, LAMBDA dependent : dependent = atom \/ dependent \notin Atoms)]

\* the setter of writeAtomState for a === atom, as an update of the state
setSelf(prevState, atom, v) ==
    p_updateDependentsState(
      updateAtomState(prevState, atom,
                      [hasRe |-> FALSE, re |-> 0, rp |-> 0, v |-> v], 0),
      atom)

RECURSIVE p_writeAtomState(_, _, _, _, _)
\* writeAtomState of writeAtom (Provider.ts:470-561), run by a thunk;
\* pendingPromises is that of the writeAtom call, calls[wid]
p_writeAtomState(P, prevState, atom, update, wid) ==
    LET \* the catch (Provider.ts:548-558), e being a new Error; r: P and
        \* nextState when the write function throws
        caught(r) ==
            IF r.P.calls[wid].n > 0
            THEN [P |-> [r.P EXCEPT !.eid = @ + 1,
                                    !.calls[wid].n = @ + 1,
                                    !.calls[wid].rej = IF @ = 0 THEN r.P.eid + 1 ELSE @],
                  st |-> r.st]
            ELSE [P |-> [r.P EXCEPT !.eid = @ + 1, !.exc = r.P.eid + 1],
                  st |-> prevState]
    IN IF prevState.s[atom].has /\ prevState.s[atom].wp /= 0
       THEN \* prevAtomState.writeP.then(() => addWriteThunk(...)); return prevState
            \* the callback of a promise already fulfilled is queued at once
            [P |-> IF P.wps[prevState.s[atom].wp].ful
                   THEN [P EXCEPT !.micro = Append(@, [k |-> "write", atom |-> atom,
                                                       update |-> update, wid |-> wid]),
                                  !.calls[wid].n = @ + 1]
                   ELSE [P EXCEPT !.wps[prevState.s[atom].wp].waiters =
                                     Append(@, [k |-> "write", atom |-> atom,
                                                update |-> update, wid |-> wid]),
                                  !.calls[wid].n = @ + 1],
             st |-> prevState]
       ELSE CASE AtomDef(atom).wr = "self" ->
                   [P |-> P, st |-> setSelf(prevState, atom, update)]
              \* the async function runs to its await and returns its promise;
              \* writeP is promiseOrVoid.then(...), named by the same number
              [] AtomDef(atom).wr = "later" ->
                   [P |-> [P EXCEPT !.wps = Append(@, [atom |-> atom, update |-> update,
                                                       wid |-> wid, done |-> FALSE,
                                                       ok |-> TRUE, ful |-> FALSE,
                                                       waiters |-> <<>>]),
                                    !.calls[wid].n = @ + 1],
                    st |-> updateAtomState(prevState, atom, [wp |-> Len(P.wps) + 1], 0)]
              \* (get, set, v) => { set(x, v); throw new Error() }
              [] AtomDef(atom).wr = "setthrow" ->
                   caught(p_writeAtomState(P, prevState, AtomDef(atom).x, update, wid))
              \* (get, set, v) => { throw new Error() }
              [] AtomDef(atom).wr = "throw" -> caught([P |-> P, st |-> prevState])

\* a WriteThunk applied to prevState
runThunk(P, thunk, prevState) ==
    CASE thunk.k = "write" ->
           p_writeAtomState(P, prevState, thunk.atom, thunk.update, thunk.wid)
      \* the thunk of writeAtom (Provider.ts:569-578):
      \* if (isSync) pendingPromises.shift()
      [] thunk.k = "first" ->
           p_writeAtomState([P EXCEPT !.calls[thunk.wid].n =
                                         IF P.calls[thunk.wid].sync THEN @ - 1 ELSE @],
                            prevState, thunk.atom, thunk.update, thunk.wid)
      \* (prev) => updateAtomState(prev, atom, { writeP: undefined })
      [] thunk.k = "clear" ->
           [P |-> P, st |-> updateAtomState(prevState, thunk.atom, [wp |-> 0], 0)]

\* setState of the Provider (Provider.ts:680-698)
p_setState(P, setStateAction) ==
    [P EXCEPT !.updq = IF MapHas(P.pmap, P.last)
                       THEN @ \o << [k |-> "value", st |-> MapGet(P.pmap, P.last, P.last)],
                                    setStateAction >>
                       ELSE Append(@, setStateAction),
              !.valid = FALSE]

RECURSIVE runWriteThunk(_)
runWriteThunk(P) ==
    LET prevState == IF MapHas(P.pmap, P.last) THEN MapGet(P.pmap, P.last, P.last)
                                               ELSE P.last
        \* r: the thunk has run
        ran(r) ==
            IF r.st /= prevState
            THEN [r.P EXCEPT !.pmap = MapSet(@, P.last, r.st),
                             !.micro = Append(@, [k |-> "flush"])]
            ELSE r.P
    IN IF ~P.valid \/ Len(P.thunks) = 0 \/ P.exc /= 0 THEN P
       ELSE runWriteThunk(ran(runThunk([P EXCEPT !.thunks = Tail(@)],
                                       Head(P.thunks), prevState)))

\* addWriteThunk of actions.write (Provider.ts:742-757)
addWriteThunk(P, thunk) ==
    IF P.valid
    THEN runWriteThunk([P EXCEPT !.thunks = Append(@, thunk)])
    ELSE p_setState([P EXCEPT !.thunks = Append(@, thunk)], [k |-> "force"])

RECURSIVE drain(_)
\* The microtasks run once the running callback has returned:
\*   flush    the callback of Promise.resolve().then in runWriteThunk
\*   write, clear    a then-callback that calls addWriteThunk
\*   resolved the promise writeP is fulfilled: its then-callbacks are queued
drain(P) ==
    LET task == Head(P.micro)
        rest == [P EXCEPT !.micro = Tail(@)]
    IN IF Len(P.micro) = 0 THEN P
       ELSE CASE task.k = "flush" ->
                   drain(IF MapHas(rest.pmap, rest.last)
                         THEN p_setState([rest EXCEPT !.pmap = MapDel(@, rest.last)],
                                         [k |-> "value",
                                          st |-> MapGet(rest.pmap, rest.last, rest.last)])
                         ELSE rest)
              [] task.k \in {"write", "clear"} -> drain(addWriteThunk(rest, task))
              [] task.k = "resolved" ->
                   drain([rest EXCEPT !.micro = @ \o rest.wps[task.promise].waiters,
                                      !.wps[task.promise].ful = TRUE,
                                      !.wps[task.promise].waiters = <<>>])

\* actions.write(atom, update): writeAtom queues the thunk of the write;
\* pendingPromises starts as [writePromise].  What it returns: a promise when
\* pendingPromises is not empty, unless the thunk has thrown.
p_writeAtom(P, atom, update) ==
    LET wid == P.issued + 1
        returned(P1) ==
            [P1 EXCEPT !.calls[wid].sync = FALSE,
                       !.calls[wid].ret = IF P1.exc /= 0 THEN "thrown"
                                          ELSE IF P1.calls[wid].n > 0 THEN "promise"
                                          ELSE "void"]
    IN drain(returned(addWriteThunk(
                        [P EXCEPT !.issued = wid, !.exc = 0,
                                  !.calls = Append(@, [sync |-> TRUE, n |-> 1, rej |-> 0,
                                                       ret |-> "void"])],
                        [k |-> "first", atom |-> atom, update |-> update,
                         wid |-> wid])))

\* The promise awaited by an asynchronous write function settles.  Fulfilled:
\* the function goes on with set(atom, update), which is
\* setState((prev) => ...), and returns; then the callback of writeP runs
\* and writeP is fulfilled.  Rejected: the function throws; promiseOrVoid
\* and writeP are rejected and none of their then-callbacks runs.
p_finishWrite(P, promise, ok) ==
    LET p == P.wps[promise]
    IN IF ok
       THEN drain([p_setState([P EXCEPT !.wps[promise].done = TRUE],
                              [k |-> "set", atom |-> p.atom, v |-> p.update])
                     EXCEPT !.micro = @ \o << [k |-> "clear", atom |-> p.atom],
                                              [k |-> "resolved", promise |-> promise] >>])
       ELSE [P EXCEPT !.wps[promise].done = TRUE, !.wps[promise].ok = FALSE]

\* ------------------------------------ Provider.ts: the atoms of components
\* The functions get a State and return the next one; r = [P, st] carries
\* the Provider (the atomStateCache, the promises made) with the State.

NotThrown == [k |-> "none", x |-> 0]

\* replaceDependencies (Provider.ts:154-196)
p_replaceDependencies(prevState, atom, dependenciesToReplace) ==
    LET prevDeps == MapKeys(prevState.s[atom].d)
    IN IF ~prevState.s[atom].has THEN prevState
       ELSE [prevState EXCEPT
               !.s[atom].d =
                  [i \in 1..Len(dependenciesToReplace) |->
                     <<dependenciesToReplace[i],
                       IF prevState.s[dependenciesToReplace[i]].has
                       THEN prevState.s[dependenciesToReplace[i]].r ELSE 0>>],
               !.d = [a \in Atoms |->
                  IF a \in Range(prevDeps) /\ a \notin Range(dependenciesToReplace)
                  THEN [has |-> TRUE, s |-> SetDel(prevState.d[a].s, atom)]
                  ELSE IF a \in Range(dependenciesToReplace) /\ a \notin Range(prevDeps)
                       THEN [has |-> TRUE, s |-> SetAdd(prevState.d[a].s, atom)]
                       ELSE prevState.d[a]]]

\* what the read function returns once the accessor has returned vals
p_value(atom, vals) ==
    CASE AtomDef(atom).rd = "self" -> vals[1]
      [] AtomDef(atom).rd = "double" -> Num(vals[1].x * 2)
      [] AtomDef(atom).rd = "parity" -> Num(vals[1].x % 2)
      [] AtomDef(atom).rd = "inc" -> Num(vals[1].x + 1)
      [] AtomDef(atom).rd = "sum" -> Num(vals[1].x + vals[2].x)
      [] AtomDef(atom).rd = "async" -> Num(vals[1].x + 10)

RECURSIVE p_readAtomState(_, _, _, _)
\* readAtomState (Provider.ts:198-342); g = [P, st, deps, thrown, vals] is
\* the run of the read function: nextState, dependencies, what the accessor
\* has thrown and what it has returned
p_readAtomState(P, prevState, atom, force) ==
    LET def == AtomDef(atom)
        cached == P.cache[atom]
        \* a !== atom: aState of readAtomState(nextState, a, ...)
        got(g, n, a) ==
            [P |-> n.P, st |-> n.st, deps |-> SetAdd(g.deps, a),
             thrown |-> IF n.st.s[a].hasRe THEN [k |-> "error", x |-> n.st.s[a].re]
                        ELSE IF n.st.s[a].rp /= 0 THEN [k |-> "promise", x |-> n.st.s[a].rp]
                        ELSE NotThrown,
             vals |-> Append(g.vals, n.st.s[a].v)]
        \* a === atom
        own(g) ==
            [g EXCEPT !.deps = SetAdd(@, atom),
                      !.thrown = IF g.st.s[atom].has /\ g.st.s[atom].rp /= 0
                                 THEN [k |-> "promise", x |-> g.st.s[atom].rp]
                                 ELSE NotThrown,
                      !.vals = Append(@, IF g.st.s[atom].has THEN g.st.s[atom].v
                                                              ELSE def.init)]
        get(g, a) ==
            IF g.thrown.k /= "none" THEN g
            ELSE IF a /= atom THEN got(g, p_readAtomState(g.P, g.st, a, FALSE), a)
            ELSE own(g)
        start == [P |-> P, st |-> prevState, deps |-> <<>>, thrown |-> NotThrown,
                  vals |-> <<>>]
        \* updateAtomState(nextState, atom, {readE, readP, value}, undefined, true)
        \* and, when flushDependencies, replaceDependencies
        flushed(g, partial) ==
            [P |-> g.P,
             st |-> p_replaceDependencies(updateAtomState(g.st, atom, partial, 0),
                                          atom, g.deps)]
        done(g) ==
            CASE g.thrown.k = "error" ->
                   flushed(g, [hasRe |-> TRUE, re |-> g.thrown.x, rp |-> 0, v |-> Undef])
              \* promise = errorOrPromise.then(() => setState(...))
              [] g.thrown.k = "promise" ->
                   flushed([g EXCEPT !.P.rps =
                              Append(@, [atom |-> atom, k |-> "thrown", on |-> g.thrown.x,
                                         res |-> Undef, deps |-> <<>>, done |-> FALSE,
                                         ok |-> TRUE])],
                           [hasRe |-> FALSE, re |-> 0, rp |-> Len(g.P.rps) + 1,
                            v |-> def.init])
              \* the async function runs to its await and returns its promise
              [] g.thrown.k = "none" /\ def.rd = "async" ->
                   [P |-> [g.P EXCEPT !.rps =
                              Append(@, [atom |-> atom, k |-> "fn", on |-> 0,
                                         res |-> p_value(atom, g.vals), deps |-> g.deps,
                                         done |-> FALSE, ok |-> TRUE])],
                    st |-> updateAtomState(g.st, atom,
                                           [hasRe |-> FALSE, re |-> 0,
                                            rp |-> Len(g.P.rps) + 1, v |-> def.init], 0)]
              [] OTHER ->
                   flushed(g, [hasRe |-> FALSE, re |-> 0, rp |-> 0,
                               v |-> p_value(atom, g.vals)])
    IN IF ~force /\ prevState.s[atom].has
       THEN [P |-> P, st |-> prevState]
       ELSE IF /\ ~force
               /\ cached.has
               /\ \A i \in 1..Len(cached.d) :
                     /\ prevState.s[cached.d[i][1]].has
                     /\ prevState.s[cached.d[i][1]].r = cached.d[i][2]
            THEN [P |-> P, st |-> [prevState EXCEPT !.s[atom] = cached]]
            ELSE done(IF def.rd = "sum" THEN get(get(start, def.x), def.y)
                      ELSE get(start, def.x))

\* readAtom (Provider.ts:393-411), actions.read(state, atom) in the render of
\* a component: `state` is the state of the last render of the Provider
p_readAtom(P, atom) ==
    LET prevState == MapGet(P.pmap, P.state, P.state)
        pending(n) ==
            IF n.st /= prevState
            THEN [n.P EXCEPT !.pmap = MapSet(@, P.state, n.st)]
            ELSE n.P
    IN pending(p_readAtomState(P, prevState, atom, FALSE))

\* the updater of addAtom (Provider.ts:413-425); sid: a new State object
p_addAtom(prevState, id, addingAtom, sid) ==
    [prevState EXCEPT !.id = sid,
                      !.d[addingAtom] = [has |-> TRUE, s |-> SetAdd(@.s, id)]]

RECURSIVE del(_, _, _)
RECURSIVE delEach(_, _, _, _)

\* atomState.deps.forEach((_, a) => { del(a, atom) })
delEach(n, atom, deps, i) ==
    IF i > Len(deps) THEN n
    ELSE delEach(del(n, deps[i], atom), atom, deps, i + 1)

\* del of delAtom (Provider.ts:436-455); n = [P, st], st holding
\* nextAtomStateMap and nextDependentsMap
del(n, atom, dependent) ==
    LET newDependents == SetDel(n.st.d[atom].s, dependent)
        size == Len(newDependents)
        isEmpty == size = 0 \/ (size = 1 /\ atom \in Range(newDependents))
    IN IF isEmpty /\ n.st.s[atom].has
       THEN delEach([P |-> [n.P EXCEPT !.cache[atom] = n.st.s[atom]],
                     st |-> [n.st EXCEPT !.s[atom] = NoAtomState]],
                    atom, MapKeys(n.st.s[atom].d), 1)
       ELSE n

\* the updater of delAtom (Provider.ts:427-459)
p_delAtom(P, prevState, id, deletingAtom) ==
    del([P |-> P, st |-> [prevState EXCEPT !.id = P.sid]], deletingAtom, id)

\* the promises errorOrPromise.then(...) made from promise p, in the order
\* of the calls of then
Waiters(P, p) ==
    SelectSeq([i \in 1..Len(P.rps) |-> i],
              LAMBDA i : P.rps[i].k = "thrown" /\ P.rps[i].on = p)

RECURSIVE p_fulfilled(_, _)
\* readP is fulfilled: the callback of each promise made from it calls
\* setState((prev) => readAtomState({ ...prev, s: mDel(prev.s, atom) }, ...)[1])
\* (Provider.ts:306-316) and that promise is fulfilled in turn
p_fulfilled(P, queue) ==
    IF Len(queue) = 0 THEN P
    ELSE p_fulfilled(p_setState([P EXCEPT !.rps[Head(queue)].done = TRUE],
                                [k |-> "recompute", atom |-> P.rps[Head(queue)].atom]),
                     Tail(queue) \o Waiters(P, Head(queue)))

\* errorOrPromise.then(...) called on a promise that is fulfilled already:
\* the callback runs once the running code has returned
p_late(P) ==
    p_fulfilled(P, SelectSeq([i \in 1..Len(P.rps) |-> i],
                             LAMBDA i : /\ P.rps[i].k = "thrown"
                                        /\ ~P.rps[i].done
                                        /\ P.rps[P.rps[i].on].done))

\* The promise an asynchronous read function returned settles: the callback
\* of then or of catch (Provider.ts:273-298) calls setState, and readP, the
\* promise they return, is fulfilled.
p_settleRead(P, promise, ok) ==
    p_fulfilled(p_setState([P EXCEPT !.rps[promise].done = TRUE,
                                     !.rps[promise].ok = ok,
                                     !.eid = IF ok THEN @ ELSE @ + 1],
                           [k |-> "resolve", atom |-> P.rps[promise].atom,
                            promise |-> promise, ok |-> ok, e |-> P.eid + 1]),
                Waiters(P, promise))

\* the updater of the callbacks of then and catch (Provider.ts:276-296)
p_resolved(P, prevState, u) ==
    updateAtomState(p_replaceDependencies(prevState, u.atom, P.rps[u.promise].deps),
                    u.atom,
                    IF u.ok
                    THEN [hasRe |-> FALSE, re |-> 0, rp |-> 0, v |-> P.rps[u.promise].res]
                    ELSE [hasRe |-> TRUE, re |-> u.e, rp |-> 0],
                    u.promise)

RECURSIVE applyUpdates(_, _, _)
\* React computes the state of the next render from the queued updates;
\* n = [P, st], P.sid counting the State objects the updaters have made
applyUpdates(n, updq, i) ==
    LET made(P) == [P EXCEPT !.sid = @ + 1]
    IN
    IF i > Len(updq) THEN n
    ELSE CASE updq[i].k = "value" ->
                applyUpdates([P |-> n.P, st |-> updq[i].st], updq, i + 1)
           \* (prev) => ({ ...prev })
           [] updq[i].k = "force" ->
                applyUpdates([P |-> made(n.P), st |-> [n.st EXCEPT !.id = n.P.sid + 1]],
                             updq, i + 1)
           [] updq[i].k = "set" ->
                applyUpdates([P |-> n.P, st |-> setSelf(n.st, updq[i].atom, updq[i].v)],
                             updq, i + 1)
           [] updq[i].k = "add" ->
                applyUpdates([P |-> made(n.P),
                              st |-> p_addAtom(n.st, updq[i].id, updq[i].atom,
                                               n.P.sid + 1)],
                             updq, i + 1)
           [] updq[i].k = "resolve" ->
                applyUpdates([P |-> n.P, st |-> p_resolved(n.P, n.st, updq[i])],
                             updq, i + 1)
           [] updq[i].k = "recompute" ->
                applyUpdates(p_readAtomState(n.P,
                                             [n.st EXCEPT !.s[updq[i].atom] = NoAtomState],
                                             updq[i].atom, FALSE),
                             updq, i + 1)
           [] updq[i].k = "del" ->
                applyUpdates(p_delAtom(made(n.P), n.st, updq[i].id, updq[i].atom),
                             updq, i + 1)

\* useIsoLayoutEffect of the Provider (Provider.ts:700-709)
layoutEffect(P) ==
    IF MapHas(P.pmap, P.state)
    THEN p_setState([P EXCEPT !.pmap = MapDel(@, P.state)],
                    [k |-> "value", st |-> MapGet(P.pmap, P.state, P.state)])
    ELSE [P EXCEPT !.last = P.state, !.valid = TRUE]

\* React renders the Provider with the queued updates and commits: the layout
\* effect runs, the effect is scheduled when `state` is another object.  A
\* state identical to the current one is no update (React bails out).
render(P) ==
    LET rendered(n) ==
            IF n.st = P.state
            THEN [P EXCEPT !.updq = <<>>]
            ELSE p_late([layoutEffect([n.P EXCEPT !.updq = <<>>, !.state = n.st])
                           EXCEPT !.eff = TRUE])
    IN rendered(applyUpdates([P |-> P, st |-> P.state], P.updq, 1))

\* useEffect of the Provider (Provider.ts:712-721)
effect(P) == drain(runWriteThunk([P EXCEPT !.eff = FALSE]))

\* ------------------------------------------------------------------- state

VARIABLES
    impl,    \* the implementation exercised: "store" (part_001), "vanilla"
             \* (part_003) or "provider" (Provider.ts)
    store,   \* the machine of the part_001 store
    vst,     \* the State of the part_003 store
    prov,    \* the Provider
    subs,    \* the unsubscribe functions store.sub returned, not yet called
    last,    \* the operation that ran last, and what it returned
    ops      \* the operations run so far

vars == <<impl, store, vst, prov, subs, last, ops>>

\* the observations are those of one operation
\* (the Mounted objects made by earlier operations are captured by no
\* pending function: their id is 0; a Mounted object the last operation
\* deleted is no longer the one an unsubscribe function captured)
Begin(M) ==
    [M EXCEPT !.rc = [a \in Atoms |-> 0], !.log = <<>>, !.stale = FALSE,
              !.seen = <<>>,
              !.usd = {[u EXCEPT !.cur = @ /\ u.atom \notin M.unm] : u \in @},
              !.unm = {}, !.inw = 0,
              !.mid = 0, !.exc = 0, !.hk = <<>>, !.mt = <<>>, !.lost = <<>>,
              !.st = [a \in Atoms |-> [@[a] EXCEPT !.m.id = 0]]]

InUse == Scenario(store.scn)

\* the atoms of the graph of the implementation exercised
Live ==
    Scenario(CASE impl = "store" -> store.scn
               [] impl = "vanilla" -> vst.scn
               [] OTHER -> prov.scn)

\* what an operation of the store that returns nothing returned or threw
Outcome(M) == IF M.exc /= 0 THEN [ok |-> FALSE, v |-> Undef, e |-> M.exc] ELSE NoResult

NoOp == [op |-> "init", atom |-> "a", arg |-> 0, r |-> NoResult]

\* an implementation the behaviour does not exercise is never constructed
NotBuilt == [scn |-> "none"]

Init ==
    /\ impl = "store"
    /\ \E s \in Scenarios : store = [NewMachine EXCEPT !.scn = s]
    /\ vst = NotBuilt
    /\ prov = NotBuilt
    /\ subs = {}
    /\ last = NoOp
    /\ ops = 0

\* the operations of one behaviour
Budget ==
    CASE impl = "provider" /\ prov.scn = "wthrow" -> MaxThrowSteps
      [] impl = "provider" /\ prov.scn = "use" -> MaxUseSteps
      [] impl = "provider" /\ prov.scn = "susp" -> MaxSuspSteps
      [] impl = "vanilla" /\ vst.scn = "susp" -> MaxSuspSteps
      [] impl = "vanilla" /\ vst.scn = "all" -> MaxAllSteps
      [] impl = "provider" /\ prov.scn \notin {"wthrow", "use", "susp"} -> MaxSteps
      [] impl = "store" /\ store.scn = "stores" -> MaxStoreOps
      [] impl = "store" /\ store.scn \in EpochScenarios \ {"mixed"} -> MaxEpochOps
      [] OTHER -> MaxOps

\* no promise of a read function is pending
Quiet == \A i \in 1..Len(vst.rps) : vst.rps[i].done

\* the calls the application makes; on the graphs "susp" and "all" the
\* callbacks of the promises, the renders and the effects come on top of
\* them, and on "all" the application goes on once the promises have settled
AppCalls ==
    IF \/ impl = "vanilla" /\ vst.scn = "susp"
       \/ impl = "provider" /\ prov.scn = "susp"
    THEN MaxSuspOps
    ELSE IF impl = "vanilla" /\ vst.scn = "all" /\ ~Quiet THEN MaxAllOps ELSE Budget

\* one more operation, within the bound
Step ==
    /\ ops < Budget
    /\ ops' = ops + 1
    /\ UNCHANGED impl

\* an operation of the part_001 store
StoreStep == Step /\ impl = "store" /\ UNCHANGED <<vst, prov>>

\* store.get(atom)
Get(atom) ==
    /\ StoreStep
    /\ atom \in InUse
    /\ LET returned(g) ==
               /\ store' = g.M
               /\ last' = [op |-> "get", atom |-> atom, arg |-> 0, r |-> g.r]
       IN returned(Call(Begin(store), [op |-> "readAtom", atom |-> atom]))
    /\ UNCHANGED subs

\* store.set(atom, v)
Set(atom, v) ==
    /\ StoreStep
    /\ atom \in InUse
    /\ isActuallyWritableAtom(atom)
    /\ store' = Call(Begin(store), [op |-> "writeAtom", atom |-> atom, arg |-> Num(v)])
    /\ last' = [op |-> "set", atom |-> atom, arg |-> v, r |-> Outcome(store')]
    /\ UNCHANGED subs

\* store.sub(atom, l)
Sub(atom, l) ==
    /\ StoreStep
    /\ atom \in InUse
    /\ [atom |-> atom, l |-> l] \notin subs
    \* the listeners are interchangeable: l2 registers where l1 has
    /\ l = "l2" => [atom |-> atom, l |-> "l1"] \in subs
    /\ store' = Call(Begin(store), [op |-> "subscribeAtom", atom |-> atom, l |-> l])
    \* no unsubscribe function is returned when store.sub throws
    /\ subs' = IF store'.exc /= 0 THEN subs ELSE subs \cup {[atom |-> atom, l |-> l]}
    /\ last' = [op |-> "sub", atom |-> atom, arg |-> 0, r |-> Outcome(store')]

\* calling the function store.sub(atom, l) returned
Unsub(atom, l) ==
    /\ StoreStep
    /\ [atom |-> atom, l |-> l] \in subs
    /\ LET kept(M) ==
               IF M.scn \in UnsubScenarios
               THEN [M EXCEPT !.usd = @ \cup {[atom |-> atom, l |-> l, cur |-> TRUE]}]
               ELSE M
       IN store' = kept(Call(Begin(store), [op |-> "unsubscribe", atom |-> atom, l |-> l]))
    /\ subs' = subs \ {[atom |-> atom, l |-> l]}
    /\ last' = [op |-> "unsub", atom |-> atom, arg |-> 0, r |-> Outcome(store')]

\* calling once more an unsubscribe function that has been called
UnsubAgain(atom, l) ==
    /\ StoreStep
    /\ \E u \in Begin(store).usd :
          /\ u.atom = atom /\ u.l = l
          /\ store' = Call(Begin(store), [op |-> "unsubscribeAgain", atom |-> atom,
                                          l |-> l, cur |-> u.cur])
    /\ last' = [op |-> "unsubagain", atom |-> atom, arg |-> 0, r |-> Outcome(store')]
    /\ UNCHANGED subs

\* store.set(atom, promise), the atom holding promises
SetPromise(atom, promise, v) ==
    /\ StoreStep
    /\ store.scn = "stores"
    /\ atom \in InUse
    /\ promise \in store.held \cup {Len(store.raw) + 1}
    /\ promise \in store.held => v = 0
    /\ store' = Call(Begin(store), [op |-> "writePromise", atom |-> atom,
                                    promise |-> promise, res |-> Num(v)])
    /\ last' = [op |-> "setp", atom |-> atom, arg |-> promise, r |-> Outcome(store')]
    /\ UNCHANGED subs

\* a promise made by a read function settles and its reactions run
Settle(promise) ==
    /\ StoreStep
    /\ promise \in 1..Len(store.raw)
    /\ ~store.raw[promise].done
    /\ ~store.raw[promise].wait
    \* the reactions of the promises that are already resolved run first
    /\ store.raw[promise].now
          \/ \A j \in 1..Len(store.raw) : store.raw[j].now => store.raw[j].done
    /\ store' = Call(Begin(store), [op |-> "settlePromise", promise |-> promise])
    /\ last' = [op |-> "settle", atom |-> store.raw[promise].atom, arg |-> promise,
                r |-> NoResult]
    /\ UNCHANGED subs

\* the delay awaited by an asynchronous write function is over
Resume(i) ==
    /\ StoreStep
    /\ i \in 1..Len(store.wq)
    /\ ~store.wq[i].done
    /\ store' = Call(Begin(store), [op |-> "resumeWrite", i |-> i])
    /\ last' = [op |-> "resume", atom |-> store.wq[i].atom, arg |-> i, r |-> NoResult]
    /\ UNCHANGED subs

\* the delay awaited by an asynchronous read function is over
ResumeRead(i) ==
    /\ StoreStep
    /\ i \in 1..Len(store.rq)
    /\ ~store.rq[i].done
    /\ store' = Call(Begin(store), [op |-> "resumeRead", i |-> i])
    /\ last' = [op |-> "resumeread", atom |-> store.rq[i].atom, arg |-> i, r |-> NoResult]
    /\ UNCHANGED subs

\* an operation of the part_003 store
VanillaStep == Step /\ impl = "vanilla" /\ UNCHANGED <<store, prov, subs>>

\* readAtom(state, setState, atom)
VGet(atom) ==
    /\ VanillaStep
    /\ ops < AppCalls
    /\ atom \in Scenario(vst.scn)
    /\ LET returned(g) ==
               /\ vst' = g.M
               /\ last' = [op |-> "vget", atom |-> atom, arg |-> 0, r |-> g.r]
       IN returned(v_readAtom(vst, atom))

\* writeAtom(state, setState, atom, v)
VSet(atom, v) ==
    /\ VanillaStep
    /\ ops < AppCalls
    /\ atom \in Scenario(vst.scn)
    /\ isActuallyWritableAtom(atom)
    /\ vst' = v_writeAtom(vst, atom, Num(v))
    /\ last' = [op |-> "vset", atom |-> atom, arg |-> v, r |-> NoResult]

\* the promise returned by a read function settles
VSettle(promise) ==
    /\ VanillaStep
    /\ promise \in 1..Len(vst.rps)
    /\ vst.rps[promise].k = "fn"
    /\ ~vst.rps[promise].done
    /\ vst' = settleRead(vst, promise)
    /\ last' = [op |-> "vsettle", atom |-> vst.rps[promise].atom, arg |-> promise,
                r |-> NoResult]

\* the promise awaited by an asynchronous write function settles
VFinish(promise, ok) ==
    /\ VanillaStep
    /\ promise \in 1..Len(vst.wps)
    /\ ~vst.wps[promise].done
    /\ vst' = finishWrite(vst, promise, ok)
    /\ last' = [op |-> "vfinish", atom |-> vst.wps[promise].atom, arg |-> promise,
                r |-> NoResult]

\* an event of the Provider
ProviderStep == Step /\ impl = "provider" /\ UNCHANGED <<store, vst, subs>>

\* actions.write(atom, v), from an event handler
PWrite(atom, v) ==
    /\ ProviderStep
    /\ atom \in Scenario(prov.scn)
    /\ isActuallyWritableAtom(atom)
    /\ prov' = p_writeAtom(prov, atom, Num(v))
    /\ last' = [op |-> "pwrite", atom |-> atom, arg |-> v, r |-> NoResult]

\* the promise awaited by an asynchronous write function settles
PFinish(promise, ok) ==
    /\ ProviderStep
    /\ promise \in 1..Len(prov.wps)
    /\ ~prov.wps[promise].done
    /\ prov' = p_finishWrite(prov, promise, ok)
    /\ last' = [op |-> "pfinish", atom |-> "tg", arg |-> promise, r |-> NoResult]

\* React renders the Provider: the effect of the previous render has run
PRender ==
    /\ ProviderStep
    /\ Len(prov.updq) > 0
    /\ ~prov.eff
    /\ prov' = render(prov)
    /\ last' = [op |-> "prender", atom |-> "tg", arg |-> 0, r |-> NoResult]

\* React runs the effect of the last render
PEffect ==
    /\ ProviderStep
    /\ prov.eff
    /\ prov' = effect(prov)
    /\ last' = [op |-> "peffect", atom |-> "tg", arg |-> 0, r |-> NoResult]

\* the symbol of the n-th useAtom call
IdOf(n) == <<"u1", "u2", "u3">>[n]

\* React has rendered the Provider with every queued update and has run the
\* effects: the components mount, render and unmount one per commit
Idle == Len(prov.updq) = 0 /\ ~prov.eff

\* a component that calls useAtom(atom) mounts: its render calls
\* actions.read(state, atom), its effect actions.add(id, atom)
PUse(atom) ==
    /\ ProviderStep
    /\ ops < AppCalls
    /\ Idle
    /\ atom \in Scenario(prov.scn)
    /\ prov.nid < MaxUsers
    /\ LET id == IdOf(prov.nid + 1)
       IN prov' = [p_late(p_setState(p_readAtom(prov, atom),
                                     [k |-> "add", id |-> id, atom |-> atom]))
                     EXCEPT !.nid = @ + 1,
                            !.users = @ \cup {[id |-> id, atom |-> atom]}]
    /\ last' = [op |-> "puse", atom |-> atom, arg |-> prov.nid + 1, r |-> NoResult]

\* the component unmounts: the cleanup of its effect calls actions.del(id, atom)
PDrop(n) ==
    /\ ProviderStep
    /\ ops < AppCalls
    /\ Idle
    /\ \E u \in prov.users :
          /\ u.id = IdOf(n)
          /\ prov' = [p_setState(prov, [k |-> "del", id |-> u.id, atom |-> u.atom])
                        EXCEPT !.users = @ \ {u}]
          /\ last' = [op |-> "pdrop", atom |-> u.atom, arg |-> n, r |-> NoResult]

\* a mounted component renders again: actions.read(state, atom)
PRead(atom) ==
    /\ ProviderStep
    /\ ops < AppCalls
    /\ Idle
    /\ \E u \in prov.users : u.atom = atom
    /\ prov' = p_late(p_readAtom(prov, atom))
    /\ last' = [op |-> "pread", atom |-> atom, arg |-> 0, r |-> NoResult]

\* the promise an asynchronous read function returned settles
PSettle(promise, ok) ==
    /\ ProviderStep
    /\ promise \in 1..Len(prov.rps)
    /\ prov.rps[promise].k = "fn"
    /\ ~prov.rps[promise].done
    /\ prov' = p_settleRead(prov, promise, ok)
    /\ last' = [op |-> "psettle", atom |-> prov.rps[promise].atom, arg |-> promise,
                r |-> NoResult]

Next ==
    \/ \E atom \in Live : Get(atom)
    \/ \E atom \in Live, v \in 0..MaxVal : Set(atom, v)
    \/ \E atom \in Live, l \in Listeners : Sub(atom, l)
    \/ \E atom \in Live, l \in Listeners : Unsub(atom, l)

\* the store of part_001 with atom graphs that hold no promise
Spec == Init /\ [][Next]_vars

InitAsync ==
    /\ impl \in {"store", "vanilla", "provider"}
    /\ \E s \in AsyncScenarios :
          /\ store = IF impl = "store" THEN [NewMachine EXCEPT !.scn = s] ELSE NotBuilt
          /\ vst = IF impl = "vanilla" THEN [createState EXCEPT !.scn = s] ELSE NotBuilt
    /\ prov = IF impl = "provider" THEN NewProvider ELSE NotBuilt
    /\ subs = {}
    /\ last = NoOp
    /\ ops = 0

NextAsync ==
    \/ Next
    \/ \E promise \in 1..MaxOps : Settle(promise)
    \/ \E i \in 1..MaxOps : Resume(i)
    \/ \E atom \in Live : VGet(atom)
    \/ \E atom \in Live, v \in 0..MaxVal : VSet(atom, v)
    \/ \E promise \in 1..MaxOps : VSettle(promise)
    \/ \E promise \in 1..MaxOps, ok \in BOOLEAN : VFinish(promise, ok)
    \/ \E atom \in Live, v \in 0..MaxVal : PWrite(atom, v)
    \/ \E promise \in 1..MaxSteps, ok \in BOOLEAN : PFinish(promise, ok)
    \/ PRender
    \/ PEffect

\* the three implementations with asynchronous reads and writes
SpecAsync == InitAsync /\ [][NextAsync]_vars

InitLife ==
    /\ impl = "store"
    /\ \E s \in LifeScenarios : store = [NewMachine EXCEPT !.scn = s]
    /\ vst = NotBuilt
    /\ prov = NotBuilt
    /\ subs = {}
    /\ last = NoOp
    /\ ops = 0

InitThrow ==
    /\ impl \in {"vanilla", "provider"}
    /\ store = NotBuilt
    /\ vst = IF impl = "vanilla" THEN [createState EXCEPT !.scn = "wthrow"] ELSE NotBuilt
    /\ prov = IF impl = "provider" THEN [NewProvider EXCEPT !.scn = "wthrow"] ELSE NotBuilt
    /\ subs = {}
    /\ last = NoOp
    /\ ops = 0

NextThrow ==
    \/ \E atom \in Live, v \in 0..MaxVal : VSet(atom, v)
    \/ \E promise \in 1..MaxOps, ok \in BOOLEAN : VFinish(promise, ok)
    \/ \E atom \in Live, v \in 0..MaxVal : PWrite(atom, v)
    \/ \E promise \in 1..MaxSteps, ok \in BOOLEAN : PFinish(promise, ok)
    \/ PRender
    \/ PEffect

InitStores ==
    /\ impl = "store"
    /\ store = [NewMachine EXCEPT !.scn = "stores"]
    /\ vst = NotBuilt
    /\ prov = NotBuilt
    /\ subs = {}
    /\ last = NoOp
    /\ ops = 0

NextStores ==
    \/ Next
    \/ \E atom \in Live, promise \in 1..MaxOps, v \in 0..MaxVal :
          SetPromise(atom, promise, v)
    \/ \E promise \in 1..MaxOps : Settle(promise)

InitEpoch ==
    /\ impl = "store"
    /\ \E s \in EpochScenarios : store = [NewMachine EXCEPT !.scn = s]
    /\ vst = NotBuilt
    /\ prov = NotBuilt
    /\ subs = {}
    /\ last = NoOp
    /\ ops = 0

InitUnsub ==
    /\ impl = "store"
    /\ \E s \in UnsubScenarios : store = [NewMachine EXCEPT !.scn = s]
    /\ vst = NotBuilt
    /\ prov = NotBuilt
    /\ subs = {}
    /\ last = NoOp
    /\ ops = 0

NextUnsub ==
    \/ Next
    \/ \E atom \in Live, l \in Listeners : UnsubAgain(atom, l)

\* the store of part_001 used by an application that calls unsubscribe
\* functions more than once
SpecUnsub == InitUnsub /\ [][NextUnsub]_vars

InitUse ==
    /\ impl = "provider"
    /\ store = NotBuilt
    /\ vst = NotBuilt
    /\ prov = [NewProvider EXCEPT !.scn = "use"]
    /\ subs = {}
    /\ last = NoOp
    /\ ops = 0

NextUse ==
    \/ \E atom \in Live : PUse(atom)
    \/ \E n \in 1..MaxUsers : PDrop(n)
    \/ \E atom \in Live : PRead(atom)
    \/ PRender
    \/ PEffect

\* the Provider with components that mount and unmount
SpecUse == InitUse /\ [][NextUse]_vars

InitSusp ==
    /\ impl \in {"vanilla", "provider"}
    /\ store = NotBuilt
    /\ vst = IF impl = "vanilla" THEN [createState EXCEPT !.scn = "susp"] ELSE NotBuilt
    /\ prov = IF impl = "provider" THEN [NewProvider EXCEPT !.scn = "susp"] ELSE NotBuilt
    /\ subs = {}
    /\ last = NoOp
    /\ ops = 0

NextSusp ==
    \/ \E atom \in Live : VGet(atom)
    \/ \E atom \in Live, v \in 0..MaxVal : VSet(atom, v)
    \/ \E promise \in 1..MaxSuspSteps : VSettle(promise)
    \/ \E atom \in Live : PUse(atom)
    \/ \E n \in 1..MaxUsers : PDrop(n)
    \/ \E atom \in Live : PRead(atom)
    \/ \E promise \in 1..MaxSuspSteps, ok \in BOOLEAN : PSettle(promise, ok)
    \/ PRender
    \/ PEffect

\* part_003 and the Provider with an atom that reads an asynchronous atom
SpecSusp == InitSusp /\ [][NextSusp]_vars

\* The steps that are taken without a call of the application, each told by
\* what it records in `last`: a step of VSettle, of PSettle, of PRender and
\* of PEffect.
VSettling ==
    \E promise \in 1..MaxSuspSteps :
        /\ impl = "vanilla"
        /\ ops < Budget
        /\ promise \in 1..Len(vst.rps)
        /\ vst.rps[promise].k = "fn"
        /\ ~vst.rps[promise].done
        /\ last' = [op |-> "vsettle", atom |-> vst.rps[promise].atom, arg |-> promise,
                    r |-> NoResult]
        /\ ops' = ops + 1

PSettling ==
    \E promise \in 1..MaxSuspSteps :
        /\ impl = "provider"
        /\ ops < Budget
        /\ promise \in 1..Len(prov.rps)
        /\ prov.rps[promise].k = "fn"
        /\ ~prov.rps[promise].done
        /\ last' = [op |-> "psettle", atom |-> prov.rps[promise].atom, arg |-> promise,
                    r |-> NoResult]
        /\ ops' = ops + 1

Rendering ==
    /\ impl = "provider"
    /\ ops < Budget
    /\ Len(prov.updq) > 0
    /\ ~prov.eff
    /\ last' = [op |-> "prender", atom |-> "tg", arg |-> 0, r |-> NoResult]
    /\ ops' = ops + 1

Effecting ==
    /\ impl = "provider"
    /\ ops < Budget
    /\ prov.eff
    /\ last' = [op |-> "peffect", atom |-> "tg", arg |-> 0, r |-> NoResult]
    /\ ops' = ops + 1

\* the promises of the read functions settle, React renders the Provider
\* when an update is queued and runs the effects of a render
SpecSuspFair ==
    /\ SpecSusp
    /\ WF_<<ops, last>>(VSettling)
    /\ WF_<<ops, last>>(PSettling)
    /\ WF_<<ops, last>>(Rendering)
    /\ WF_<<ops, last>>(Effecting)

InitAll ==
    /\ impl = "vanilla"
    /\ store = NotBuilt
    /\ vst = [createState EXCEPT !.scn = "all"]
    /\ prov = NotBuilt
    /\ subs = {}
    /\ last = NoOp
    /\ ops = 0

NextAll ==
    \/ \E atom \in Live : VGet(atom)
    \/ \E atom \in Live, v \in 0..MaxVal : VSet(atom, v)
    \/ \E promise \in 1..MaxAllPromises : VSettle(promise)

\* part_003 with the atoms of waitForAll
SpecAll == InitAll /\ [][NextAll]_vars

NextEpoch ==
    \/ Next
    \/ \E promise \in 1..MaxOps : Settle(promise)
    \/ \E i \in 1..MaxOps : ResumeRead(i)

\* the store of part_001 with atom graphs that exercise the epoch numbers,
\* the dependency maps and the pending promises
SpecEpoch == InitEpoch /\ [][NextEpoch]_vars

\* two stores of part_001 used with the same atom and the same promises
SpecStores == InitStores /\ [][NextStores]_vars

\* part_003 and the Provider with write functions that throw
SpecThrow == InitThrow /\ [][NextThrow]_vars

\* the store of part_001 with atom graphs that have onMount hooks and read
\* functions that throw
SpecLife == InitLife /\ [][Next]_vars

\* ------------------------------------------------------------------ claims

\* two results of an accessor call are the same value, or both a throw
Same(r, i) == r.ok = i.ok /\ (r.ok => r.v = i.v)

\* the atoms whose epoch the step advanced
Advanced(x) == store'.st[x].n /= store.st[x].n

C2_Batched ==
    last.op = "set" =>
        /\ \A i \in 1..Len(store.log) :
              /\ store.log[i].inw = 0
              /\ \A x \in InUse \cap {"a", "b"} :
                     store.log[i][x] = readAtom(Begin(store), x).r
        /\ \A i, j \in 1..Len(store.log) :
              (store.log[i].l = store.log[j].l /\ store.log[i].atom = store.log[j].atom)
                 => i = j

\* C3: a store.set that advances the epoch of an atom X invokes, before it
\* returns, every listener registered for X.
C3_ListenersNotified ==
    [][last'.op = "set" =>
         \A x \in Atoms : \A l \in Range(store.st[x].m.l) :
            Advanced(x) =>
               \E i \in 1..Len(store'.log) :
                  store'.log[i].l = l /\ store'.log[i].atom = x]_vars

\* C4 as stated: in the diamond D's read function runs exactly once for one
\* write, and no atom's read function runs more than once for one write.
C4_AtMostOneRead ==
    last.op = "set" => \A x \in Atoms : store.rc[x] <= 1

\* C4 amended: in the diamond (dia reads dbl and par, which read a) one
\* store.set that advances a's epoch runs dia's read function exactly once
\* during the set when dia is mounted, and otherwise at most once over the
\* set and the store.get(dia) that follows it; the read functions of the
\* atoms between a and dia may run twice.
C4_DiamondOnce ==
    [][(last'.op = "set" /\ store.scn = "diamond" /\ Advanced("a")) =>
          /\ store.st["dia"].m.on => store'.rc["dia"] = 1
          /\ store'.rc["dia"] + readAtom(Begin(store'), "dia").M.rc["dia"] <= 1]_vars

\* C4 witness: a set has recomputed the mounted dia once
C4_Witness ==
    /\ last.op = "set"
    /\ store.scn = "diamond"
    /\ store.st["dia"].m.on
    /\ store.rc["dia"] = 1
    /\ store.rc["dbl"] = 1
    /\ store.rc["par"] = 1

C6_GetIdempotent ==
    last.op = "get" =>
        LET again(g) ==
               /\ g.r = last.r
               /\ \A y \in Atoms : g.M.rc[y] = 0
               /\ g.M.st = store.st
        IN again(readAtom(Begin(store), last.atom))

\* C6 witness: store.get of an unmounted atom in error state has thrown
C6_Witness ==
    /\ last.op = "get"
    /\ last.atom = "err"
    /\ ~last.r.ok
    /\ ~store.st["err"].m.on

\* C10: after every completed operation an atom is mounted if and only if it
\* has a listener or is recorded as a dependency of a mounted atom.
C10_MountedIff ==
    \A x \in Atoms :
        store.st[x].m.on <=>
            \/ Len(store.st[x].m.l) > 0
            \/ \E y \in Atoms : store.st[y].m.on /\ MapHas(store.st[y].d, x)

\* the promises the read function of a continuable promise has returned
RawsOf(p) == {i \in 1..Len(store.raw) : store.raw[i].cp = p}

\* the promise returned by the latest of these computations
Latest(p) == CHOOSE i \in RawsOf(p) : \A j \in RawsOf(p) : j <= i

\* C7, in part_001: once every promise an asynchronous atom's computations
\* have returned has settled, the atom's promise is fulfilled with the result
\* of the latest computation; the settlement of a superseded promise, while
\* the promise that superseded it is unsettled, leaves the atom's promise
\* pending.
C7_StoreSupersedes ==
    /\ impl = "store" =>
          \A p \in 1..Len(store.cp) :
             (\A i \in RawsOf(p) : store.raw[i].done) =>
                 /\ store.cp[p].status = "fulfilled"
                 /\ store.cp[p].value = store.raw[Latest(p)].res
    /\ (impl = "store" /\ last.op = "settle"
           /\ Cardinality(RawsOf(store.raw[last.arg].cp)) >= 2
           /\ last.arg /= Latest(store.raw[last.arg].cp)
           /\ ~store.raw[Latest(store.raw[last.arg].cp)].done)
         => store.cp[store.raw[last.arg].cp].status = "pending"

\* a superseded promise of part_001 has settled after the promise that
\* superseded it
C7_StoreWitness ==
    /\ impl = "store"
    /\ last.op = "settle"
    /\ Cardinality(RawsOf(store.raw[last.arg].cp)) >= 2
    /\ last.arg /= Latest(store.raw[last.arg].cp)
    /\ \A i \in RawsOf(store.raw[last.arg].cp) : store.raw[i].done

\* C7: an asynchronous atom whose computation was started twice holds, once
\* both promises have settled, the result of the second computation: in
\* part_001 the atom's promise is fulfilled with it, in part_003 a read of the
\* atom returns it without starting a computation.
C7_Supersession ==
    /\ C7_StoreSupersedes
    /\ (impl = "vanilla" /\ Len(vst.rps) >= 2 /\ \A i \in 1..Len(vst.rps) : vst.rps[i].done)
         => /\ v_readAtom(vst, "asy").M.rps = vst.rps
            /\ v_readAtom(vst, "asy").r.rp = 0
            /\ v_readAtom(vst, "asy").r.v = vst.rps[Len(vst.rps)].res

\* the invocations of the write function of tg and the calls that asked for
\* them, in the implementation in use
Invocations == IF impl = "provider" THEN prov.wps ELSE vst.wps
Issued == IF impl = "provider" THEN prov.issued ELSE vst.issued

\* nothing is left to run until a promise settles or a write is issued
Quiescent ==
    impl = "provider" =>
        /\ Len(prov.updq) = 0
        /\ Len(prov.thunks) = 0
        /\ Len(prov.micro) = 0
        /\ ~prov.eff

\* C8, at most one in flight: at no time are two invocations of the write
\* function of one atom unsettled.
C8_AtMostOneUnsettled ==
    impl \in {"vanilla", "provider"} =>
        Cardinality({k \in 1..Len(Invocations) : ~Invocations[k].done}) <= 1

\* C8, replay: as long as no write function has rejected, every write issued
\* has been invoked once every invocation has settled and nothing is left to
\* run.
C8_ReplayedUnlessRejected ==
    (impl \in {"vanilla", "provider"} /\ Quiescent
       /\ \A k \in 1..Len(Invocations) : Invocations[k].done /\ Invocations[k].ok)
     => Len(Invocations) = Issued

\* C8, order, in part_003: the write function is invoked for the writes in
\* the order they were issued.
C8_VanillaInOrder ==
    impl = "vanilla" => \A k \in 1..Len(Invocations) : Invocations[k].wid = k

\* C8: writes to an atom whose write function is asynchronous are serialised:
\* one invocation is unsettled at a time, the write function is invoked for
\* the writes in the order they were issued, and a write deferred behind an
\* earlier one is replayed once the earlier one has settled, so that when
\* every invocation has settled and nothing is left to run every write
\* issued has been invoked.
C8_WritesSerialised ==
    /\ C8_AtMostOneUnsettled
    /\ impl \in {"vanilla", "provider"} =>
          \A k \in 1..Len(Invocations) : Invocations[k].wid = k
    /\ (impl \in {"vanilla", "provider"} /\ Quiescent
           /\ \A k \in 1..Len(Invocations) : Invocations[k].done)
         => Len(Invocations) = Issued

\* C9: after set(target, 1) and set(target, 2) on the atom whose write
\* function awaits a delay and then sets the atom itself, and once both
\* write functions have finished, the atom holds the value written last.
C9_LastWriteWins ==
    (impl = "store" /\ store.scn = "awrite" /\ Len(store.wq) >= 2
       /\ \A i \in 1..Len(store.wq) : store.wq[i].done)
     => store.st["tg"].v = store.wq[Len(store.wq)].arg

\* C11: mounting and unmounting are symmetric: when the last subscription
\* has been given back no atom is mounted, whatever store.set ran while the
\* subscription was held, and every cleanup an onMount hook returned has been
\* invoked.
C11_MountSymmetry ==
    (last.op = "unsub" /\ subs = {}) =>
        /\ MountedAtoms(store) = {}
        /\ \A x \in Atoms : store.owe[x] = 0

\* the calls of kind k ("mount": an onMount hook, "cleanup": the function it
\* returned) made for atom x by the operation that led to M
Calls(M, k, x) == {i \in 1..Len(M.hk) : M.hk[i].k = k /\ M.hk[i].atom = x}

\* after the step atom x has no listener and no mounted atom reads it
Unheld(x) ==
    /\ Len(store'.st[x].m.l) = 0
    /\ \A c \in Atoms : store'.st[c].m.on => ~MapHas(store'.st[c].d, x)

\* C12: when a store.set recomputes a mounted atom c, c stays mounted; a
\* dependency x it no longer reads, held by nothing else, is unmounted and the
\* cleanup of x's onMount hook runs; a dependency y it newly reads is mounted
\* and y's onMount hook runs if y was not mounted.
C12_DependencySwitch ==
    [][last'.op = "set" =>
         \A c \in Atoms :
            store.st[c].m.on =>
               /\ store'.st[c].m.on
               /\ \A x \in Atoms :
                     (MapHas(store.st[c].d, x) /\ ~MapHas(store'.st[c].d, x) /\ Unheld(x)) =>
                        /\ ~store'.st[x].m.on
                        /\ store.st[x].m.u => Calls(store', "cleanup", x) /= {}
               /\ \A y \in Atoms :
                     (~MapHas(store.st[c].d, y) /\ MapHas(store'.st[c].d, y)) =>
                        /\ store'.st[y].m.on
                        /\ (~store.st[y].m.on /\ onMount(y) /= "none") =>
                               Calls(store', "mount", y) /= {}]_vars

\* the Mounted objects the operation that led to M made for atom x: its
\* transitions from unmounted to mounted
Mounts(M, x) == {i \in 1..Len(M.mt) : M.mt[i] = x}

\* C13: in every operation the onMount hook of an atom is invoked exactly once
\* for each transition of the atom from unmounted to mounted, whatever the
\* listeners subscribed to it and the mounted atoms that read it, and so not
\* at all by an operation during which the atom stays mounted.
C13_OnMountOncePerMount ==
    \A x \in Atoms :
        onMount(x) /= "none" =>
            Cardinality(Calls(store, "mount", x)) = Cardinality(Mounts(store, x))

\* C13 witness: top is subscribed to while h, which it reads, is mounted with
\* two listeners: the hook of top runs once, the hook of h does not run
C13_Witness ==
    /\ store.scn = "chain"
    /\ last.op = "sub"
    /\ last.atom = "top"
    /\ Len(store.st["h"].m.l) = 2
    /\ Cardinality(Calls(store, "mount", "top")) = 1
    /\ Calls(store, "mount", "h") = {}

\* the atoms x read when it was last computed, and those it reads through
\* other atoms
Deps(M, x) == Range(MapKeys(M.st[x].d)) \ {x}

RECURSIVE Reach(_, _, _)
Reach(M, todo, done) ==
    LET x == CHOOSE y \in todo : TRUE
    IN IF todo = {} THEN done
       ELSE Reach(M, (todo \cup Deps(M, x)) \ (done \cup {x}), done \cup {x})

\* C14: when store.sub mounts an atom, every dependency of an atom that gets
\* a Mounted object has its own already; every onMount hook runs when the
\* subscribed atom and all the atoms it reads, directly or not, have their
\* Mounted objects; and the hook of a dependency runs before the hook of the
\* atom that reads it.
C14_DependenciesFirst ==
    last.op = "sub" =>
        /\ \A i \in 1..Len(store.mt) : \A d \in Deps(store, store.mt[i]) :
               \/ \E j \in 1..(i - 1) : store.mt[j] = d
               \/ d \notin Range(store.mt) /\ store.st[d].m.on
        /\ \A i \in 1..Len(store.hk) :
               store.hk[i].k = "mount" =>
                  Reach(store, {last.atom}, {}) \subseteq store.hk[i].on
        /\ \A i, j \in 1..Len(store.hk) :
               (/\ store.hk[i].k = "mount"
                /\ store.hk[j].k = "mount"
                /\ store.hk[j].atom \in Deps(store, store.hk[i].atom)) => j < i

\* C14 witness: store.sub(top, l) has mounted h, then top, and has run the
\* hook of h, then the hook of top
C14_Witness ==
    /\ last.op = "sub"
    /\ last.atom = "top"
    /\ store.mt = <<"h", "top">>
    /\ Len(store.hk) = 2
    /\ store.hk[1].atom = "h"
    /\ store.hk[2].atom = "top"
    /\ store.hk[1].on = {"h", "top"}

\* C15: the cleanup of an atom that is unmounted runs while the atom still
\* has its Mounted object and the atoms it reads are still mounted.
C15_CleanupFirst ==
    \A i \in 1..Len(store.hk) :
        store.hk[i].k = "cleanup" =>
            /\ store.hk[i].atom \in store.hk[i].on
            /\ Deps(store, store.hk[i].atom) \subseteq store.hk[i].on

C17_ThrowKeepsDependencies ==
    [][(last'.op = "set" /\ store.scn = "errcond" /\ store.st["thr"].m.on) =>
          /\ (Advanced("thr") /\ store'.st["thr"].hasE) =>
                /\ MapHas(store'.st["thr"].d, "a")
                /\ "a" \in Range(store'.st["thr"].m.d)
                /\ store'.st["a"].m.on
                /\ ~MapHas(store'.st["thr"].d, "b")
                /\ "b" \notin Range(store'.st["thr"].m.d)
                /\ Len(store'.st["b"].m.l) = 0 => ~store'.st["b"].m.on
          /\ (store.st["thr"].hasE /\ PrimVal(store', "a").x /= 1) =>
                /\ store'.rc["thr"] > 0
                /\ Same(returnAtomValue(store'.st["thr"]), Ideal(store', "thr"))]_vars

\* the thunk of the last actions.write has run
ThunkRan ==
    ~\E i \in 1..Len(prov.thunks) :
        prov.thunks[i].k = "first" /\ prov.thunks[i].wid = prov.issued

\* C18: wt's write function calls set(tg, v), which starts an asynchronous
\* write or waits for the one that is running, and then throws; thw's write
\* function throws at once.  In part_003 and in the Provider, writing wt does
\* not throw and returns a promise that is rejected with the Error; writing
\* thw, with nothing pending, throws the Error to the caller (in the Provider,
\* when the write runs within the call).
C18_WriteThrow ==
    /\ (impl = "vanilla" /\ last.op = "vset" /\ last.atom = "wt") =>
           vst.ret.k = "promise" /\ vst.ret.e /= 0
    /\ (impl = "vanilla" /\ last.op = "vset" /\ last.atom = "thw") =>
           vst.ret.k = "thrown"
    /\ (impl = "provider" /\ last.op = "pwrite" /\ last.atom = "wt") =>
           /\ prov.calls[prov.issued].ret = "promise"
           /\ ThunkRan => prov.calls[prov.issued].rej /= 0
    /\ (impl = "provider" /\ last.op = "pwrite" /\ last.atom = "thw" /\ ThunkRan) =>
           prov.calls[prov.issued].ret = "thrown"

\* C19: when the cleanup of bm, which throws, is invoked by an unsubscribe,
\* the unsubscribe throws that Error to its caller and the unmounting is
\* complete all the same: the atom unsubscribed from is not mounted, an atom is
\* mounted only if a listener or a mounted atom holds it, and the Mounted
\* objects that remain agree with the dependency maps (the dependencies of a
\* mounted atom are those it read, they are mounted and list it as a
\* dependent).
C19_CleanupThrow ==
    (last.op = "unsub" /\ Calls(store, "cleanup", "bm") /= {}) =>
        /\ ~last.r.ok
        /\ last.r.e = store.eid
        /\ ~store.st[last.atom].m.on
        /\ \A x \in Atoms :
              /\ store.st[x].m.on =>
                    \/ Len(store.st[x].m.l) > 0
                    \/ \E y \in Atoms : store.st[y].m.on /\ MapHas(store.st[y].d, x)
              /\ store.st[x].m.on =>
                    /\ Range(store.st[x].m.d) = Range(MapKeys(store.st[x].d))
                    /\ \A d \in Range(store.st[x].m.d) :
                           store.st[d].m.on /\ x \in Range(store.st[d].m.t)

\* C19 witness: unsubscribing from tb, which reads bm and a, has unmounted
\* tb and bm, has run the cleanup of tb and then the cleanup of bm, and has
\* thrown; a, which has a listener, is still mounted
C19_Witness ==
    /\ last.op = "unsub"
    /\ last.atom = "tb"
    /\ ~last.r.ok
    /\ Len(store.hk) = 2
    /\ store.hk[1].atom = "tb"
    /\ store.hk[2].atom = "bm"
    /\ store.unm = {"tb", "bm"}
    /\ MountedAtoms(store) = {"a"}

\* what store.get, the epoch and the mount state show of atom x, and what a
\* pending value of x will be settled with
Observe(M, x) ==
    [v      |-> M.st[x].v,
     hasV   |-> M.st[x].hasV,
     e      |-> M.st[x].e,
     n      |-> M.st[x].n,
     on     |-> M.st[x].m.on,
     l      |-> M.st[x].m.l,
     settle |-> IF M.st[x].hasV /\ isContinuablePromise(M, M.st[x].v)
                THEN [status |-> M.cp[M.st[x].v.x].status,
                      value  |-> M.cp[M.st[x].v.x].value,
                      with   |-> M.raw[M.cp[M.st[x].v.x].curr].res]
                ELSE [status |-> "none", value |-> Undef, with |-> Undef]]

\* the same atom in the other store
Other(x) == IF x = "q1" THEN "q2" ELSE "q1"

\* C20: a get, set, sub or unsubscribe on one store, a store.set that
\* continues a pending promise included, leaves what the other store shows of
\* the atom as it was: its value, what its pending value will be settled
\* with, its epoch and its mount state.
C20_StoresIndependent ==
    [][(store.scn = "stores" /\ last'.op \in {"get", "set", "setp", "sub", "unsub"}) =>
          Observe(store', Other(last'.atom)) = Observe(store, Other(last'.atom))]_vars


\* C21: when an atom is recomputed while the promise of its previous
\* computation is pending, the abort callback of the superseded computation
\* is invoked exactly once, whether the new computation returns a promise,
\* returns a plain value or throws; the abort callback of a computation that
\* has not been superseded is never invoked.
C21_AbortOnce ==
    \A i \in 1..Len(store.raw) :
        store.raw[i].aborted = (IF store.raw[i].sup THEN 1 ELSE 0)

\* the continuable promises that follow promise i and for which unmountAtom
\* has called continuePromise with undefined
Dropped(M, i) == {p \in 1..Len(M.cp) : M.cp[p].curr = i /\ M.cp[p].und}

\* C22: when an atom has been unmounted while its promise was pending and is
\* not mounted when the promise settles, the settlement makes no Mounted
\* object, runs no onMount hook and no cleanup, calls no listener and leaves
\* the Mounted object of every atom as it is.
C22_SettleAfterUnmount ==
    [][(last'.op = "settle" /\ Dropped(store, last'.arg) /= {}
          /\ ~store.st[last'.atom].m.on) =>
          /\ store'.mt = <<>>
          /\ store'.hk = <<>>
          /\ store'.log = <<>>
          /\ \A y \in Atoms : store'.st[y].m = Begin(store).st[y].m]_vars

\* C22 witness: the promise of mix has settled after mix was unmounted, while
\* a, which mix reads, is mounted with a listener
C22_Witness ==
    /\ last.op = "settle"
    /\ last.atom = "mix"
    /\ \E p \in Dropped(store, last.arg) : store.cp[p].status = "fulfilled"
    /\ ~store.st["mix"].m.on
    /\ Len(store.st["a"].m.l) = 1

\* atom x reads the written atom, directly or through other atoms, and none
\* of the dependencies recorded for x advanced its epoch in the step
Unaffected(x) ==
    /\ x /= last'.atom
    /\ last'.atom \in Reach(store, Deps(store, x), {})
    /\ \A d \in Deps(store, x) : ~Advanced(d)

\* a listener registered for x was called in the step
Notified(x) == \E i \in 1..Len(store'.log) : store'.log[i].atom = x

\* an atom recomputed in the step read x through the accessor
ReadBy(x) ==
    \E y \in Atoms \ {x} : store'.rc[y] > 0 /\ MapHas(store'.st[y].d, x)

\* C23 as stated: during the propagation of a store.set a transitive
\* dependent none of whose recorded dependencies advanced its epoch is
\* skipped: its read function is not invoked, its epoch and value are
\* unchanged and its listeners are not called.
C23_SkippedEntirely ==
    [][last'.op = "set" =>
         \A x \in Atoms :
            Unaffected(x) =>
               /\ store'.rc[x] = 0
               /\ store'.st[x].n = store.st[x].n
               /\ store'.st[x].v = store.st[x].v
               /\ ~Notified(x)]_vars

\* C23 amended: such a dependent is skipped by the propagation loop: its
\* listeners are not called, and unless an atom recomputed during the same
\* store.set reads it through the accessor its read function is not invoked
\* and its epoch and value are unchanged.
C23_SkippedUnlessRead ==
    [][last'.op = "set" =>
         \A x \in Atoms :
            Unaffected(x) =>
               /\ ~Notified(x)
               /\ ~ReadBy(x) =>
                     /\ store'.rc[x] = 0
                     /\ store'.st[x].n = store.st[x].n
                     /\ store'.st[x].v = store.st[x].v]_vars

\* C23 witness: a was set from 0 to 2 while pp and w2 are mounted with
\* listeners; par was recomputed to the value it had, pp was not recomputed
\* and its listener was not called, the listener of w2 was
C23_Witness ==
    /\ last.op = "set"
    /\ last.atom = "a"
    /\ store.scn = "skip"
    /\ store.rc["par"] > 0
    /\ store.rc["pp"] = 0
    /\ store.rc["w2"] = 1
    /\ Len(store.st["pp"].m.l) = 1
    /\ \E i \in 1..Len(store.log) : store.log[i].atom = "w2"
    /\ \A i \in 1..Len(store.log) : store.log[i].atom /= "pp"

\* C24: store.set of a primitive atom to the value its state holds leaves the
\* atom's epoch as it is, invokes no read function and calls no listener.
C24_EqualSetIsNoop ==
    [][(last'.op = "set" /\ AtomDef(last'.atom).wr = "self"
          /\ store.st[last'.atom].hasV
          /\ store.st[last'.atom].v = Num(last'.arg)) =>
          /\ store'.st[last'.atom].n = store.st[last'.atom].n
          /\ \A y \in Atoms : store'.rc[y] = 0
          /\ store'.log = <<>>]_vars

\* C24 witness: a, mounted with a listener and read by the mounted par, was
\* set to the value 2 it held: no listener was called, nothing was recomputed
C24_Witness ==
    /\ last.op = "set"
    /\ last.atom = "a"
    /\ last.arg = 2
    /\ store.st["a"].v = Num(2)
    /\ Len(store.st["a"].m.l) = 1
    /\ store.st["par"].m.on
    /\ store.rc["par"] = 0
    /\ store.log = <<>>

\* the value or error an atom state holds; for a pending value, the promise
\* object the latest computation returned
Result(M, x) ==
    [hasV |-> M.st[x].hasV, v |-> M.st[x].v, hasE |-> M.st[x].hasE, e |-> M.st[x].e,
     curr |-> IF getPendingContinuablePromise(M, M.st[x]) /= 0
              THEN M.cp[M.st[x].v.x].curr ELSE 0]

\* the step computed or wrote atom x exactly once: one invocation of the read
\* function of a derived atom, or one store.set of a primitive atom whose
\* state held a value
Once(x) ==
    \/ AtomDef(x).wr = "none" /\ store'.rc[x] = 1
    \/ /\ AtomDef(x).wr = "self" /\ last'.op = "set" /\ last'.atom = x
       /\ store'.rc[x] = 0 /\ store.st[x].hasV

\* C25: the epoch of an atom never decreases; one recomputation or write
\* advances it by exactly one when the resulting value or error is not the
\* one the state held (the same number, the same promise object, the same
\* Error object), and leaves it as it is when the result is identical.
C25_EpochCountsChanges ==
    [][impl = "store" =>
         \A x \in Atoms :
            /\ store'.st[x].n >= store.st[x].n
            /\ Once(x) =>
                  store'.st[x].n =
                     store.st[x].n + (IF Result(store', x) = Result(store, x) THEN 0 ELSE 1)]_vars

\* C26: after every completed operation the dependency map of each atom holds
\* exactly the atoms its most recent computation has read through the
\* accessor: an atom read only by an earlier computation, a superseded
\* asynchronous one that calls the accessor after its await included, is not
\* in the map.
C26_DependenciesOfLatest ==
    \A x \in Atoms : Range(MapKeys(store.st[x].d)) = store.rs[x]

C28_ValueOrError ==
    \A x \in Atoms : ~(store.st[x].hasV /\ store.st[x].hasE)

\* C28 witness: the read function of mix has thrown while the promise of its
\* previous computation was pending, and mix holds the error
C28_Witness ==
    /\ last.op = "set"
    /\ store.st["mix"].hasE
    /\ store.rc["mix"] = 1
    /\ \E i \in 1..Len(store.raw) :
          store.raw[i].atom = "mix" /\ store.raw[i].sup /\ ~store.raw[i].done

\* C29: no atom is a key of its own dependency map.  A store.get of an atom
\* whose read function reads the atom itself invokes the read function at most
\* once and returns the value the state held, the init value when the state
\* held none; for an atom that has neither it throws an Error, which is
\* recorded as the error of the atom.
C29_NoSelfDependency ==
    [][impl = "store" =>
         /\ \A x \in Atoms : ~MapHas(store'.st[x].d, x)
         /\ (last'.op = "get" /\ AtomDef(last'.atom).rd = "self") =>
               /\ store'.rc[last'.atom] <= 1
               /\ hasInitialValue(last'.atom) =>
                     /\ last'.r.ok
                     /\ last'.r.v = IF store.st[last'.atom].hasV
                                    THEN store.st[last'.atom].v
                                    ELSE AtomDef(last'.atom).init
               /\ (~hasInitialValue(last'.atom) /\ ~isAtomStateInitialized(store.st[last'.atom])) =>
                     /\ ~last'.r.ok
                     /\ store'.st[last'.atom].hasE
                     /\ store'.st[last'.atom].e = last'.r.e
                     /\ last'.r.e = store.eid + 1]_vars

\* C29 witness: the first store.get of slf, which has no init and reads
\* itself, has thrown
C29_Witness ==
    /\ last.op = "get"
    /\ last.atom = "slf"
    /\ ~last.r.ok
    /\ store.rc["slf"] = 1
    /\ store.st["slf"].hasE
    /\ store.st["slf"].d = <<>>

\* C30: store.get of an atom whose value is a promise that has not settled
\* returns no value, it throws; and the accessor throws when a read function
\* reads such an atom, so that the read function does not run to its end:
\* dp, whose read function returns 1 after it has read mix, does not come to
\* hold 1 by a computation that found mix pending.
C30_PendingThrows ==
    /\ (last.op = "get" /\ getPendingContinuablePromise(store, store.st[last.atom]) /= 0)
          => ~last.r.ok
    /\ \A x \in Atoms :
          (AtomDef(x).rd = "seen" /\ store.rc[x] > 0
             /\ getPendingContinuablePromise(store, store.st[AtomDef(x).x]) /= 0)
          => ~(store.st[x].hasV /\ store.st[x].v = Num(1))

\* C35: when store.sub's unsubscribe function unmounts an atom whose value is
\* a pending promise, the abort callback of the computation that promise
\* follows is invoked once.
C35_UnmountAborts ==
    [][(impl = "store" /\ last'.op = "unsub") =>
         \A x \in Atoms :
            LET p == getPendingContinuablePromise(store, store.st[x])
            IN (store.st[x].m.on /\ ~store'.st[x].m.on /\ p /= 0) =>
                  store'.raw[store.cp[p].owner].aborted =
                     store.raw[store.cp[p].owner].aborted + 1]_vars

\* C37: after every completed store operation, for every mounted atom x and
\* every atom y among its mounted dependencies, y is mounted and x is among
\* the mounted dependents of y.
C37_MountedIndexAgrees ==
    impl = "store" =>
        \A x \in Atoms :
            store.st[x].m.on =>
                \A y \in Range(store.st[x].m.d) :
                    /\ store.st[y].m.on
                    /\ x \in Range(store.st[y].m.t)

\* C37 witness: a store.set has recomputed the mounted w2, which no longer
\* reads pp: pp has left the mounted dependencies of w2 and w2 the mounted
\* dependents of pp, and a, the one mounted dependency left, has w2 among its
\* mounted dependents
C37_Witness ==
    /\ last.op = "set"
    /\ store.scn = "skip"
    /\ store.st["w2"].m.on
    /\ store.rc["w2"] = 1
    /\ store.st["w2"].m.d = <<"a">>
    /\ MapHas(store.st["pp"].d, "par")
    /\ "w2" \notin Range(store.st["pp"].m.t)
    /\ "w2" \in Range(store.st["a"].m.t)

\* atom x is held: a subscription that has not been unsubscribed registered a
\* listener for it, or an atom mounted at the time has it as a dependency
Held(x) ==
    \/ \E s \in subs : s.atom = x /\ s.l \in Range(store.st[x].m.l)
    \/ \E y \in Range(store.st[x].m.t) : store.st[y].m.on

\* C38: calling an unsubscribe function a second time runs no cleanup,
\* unmounts no atom that a listener of another subscription or a mounted
\* dependent holds, and leaves registered the listeners of the subscriptions
\* that have not been unsubscribed, a later subscription to the same atom
\* included.
C38_UnsubscribeTwice ==
    [][last'.op = "unsubagain" =>
         /\ \A i \in 1..Len(store'.hk) : store'.hk[i].k /= "cleanup"
         /\ \A x \in Atoms : (store.st[x].m.on /\ Held(x)) => store'.st[x].m.on
         /\ \A s \in subs :
               s.l \in Range(store.st[s.atom].m.l) =>
                  s.l \in Range(store'.st[s.atom].m.l)]_vars

\* C36: when a store operation returns or throws, every listener call,
\* onMount hook and onUnmount cleanup queued during the operation has run:
\* none was left in the Pending of the operation and none was skipped by the
\* loop that runs them, whether or not a queued function threw.
C36_AllQueuedRun ==
    impl = "store" =>
        /\ store.lost = <<>>
        /\ store.pend.fn = <<>>
        /\ \A i \in 1..Len(store.pend.as) : Len(store.st[store.pend.as[i]].m.l) = 0

PendingOn(x, p) ==
    /\ ~store.st[x].m.on
    /\ p /= 0
    /\ p = getPendingContinuablePromise(store, store.st[x])
    /\ MapHas(store.st[x].d, last'.atom)
    /\ Advanced(last'.atom)

\* C34: a store.set that changes A recomputes, during the set, an atom B that
\* is not mounted and holds a pending promise computed from A, and when the
\* new computation returns it continues B's promise with the promise of the
\* new computation, which resolves to the value B's definition denotes for
\* the new A; when the promise B's state holds settles, it is fulfilled with
\* the result of the promise it follows and B leaves the pending dependents
\* of every atom.
C34_PendingContinued ==
    [][impl = "store" =>
         /\ last'.op = "set" =>
               \A x \in Atoms : \A p \in 1..Len(store.cp) :
                  PendingOn(x, p) =>
                     /\ store'.rc[x] = 1
                     /\ ~store'.st[x].hasE =>
                           /\ store'.cp[p].curr > Len(store.raw)
                           /\ ~store'.raw[store'.cp[p].curr].wait =>
                                 store'.raw[store'.cp[p].curr].res = Ideal(store', x).v
         /\ last'.op = "settle" =>
               \A x \in Atoms : \A p \in 1..Len(store.cp) :
                  (p = getPendingContinuablePromise(store, store.st[x])
                     /\ store.cp[p].curr = last'.arg) =>
                     /\ store'.cp[p].status = "fulfilled"
                     /\ store'.cp[p].value = store.raw[last'.arg].res
                     /\ \A y \in Atoms : x \notin Range(store'.st[y].p)]_vars

\* C39: in part_003, when a write function throws and writeAtom throws the
\* Error on, setState is not called: the committed atom states and the
\* dependents map are what they were before the call, nothing the set calls
\* of the failed write function did is among them, and no work in progress
\* is kept.
C39_ThrowCommitsNothing ==
    [][(impl = "vanilla" /\ last'.op = "vset" /\ vst'.ret.k = "thrown") =>
          /\ vst'.a = vst.a
          /\ vst'.m = vst.m
          /\ vst'.w = <<>>]_vars

\* C39 witness: the write function of wt has called set(tg, v), which started
\* the asynchronous write function of tg, and has thrown; writeAtom has
\* thrown and tg has no committed write promise
C39_Witness ==
    /\ impl = "vanilla"
    /\ last.op = "vset"
    /\ last.atom = "wt"
    /\ vst.ret.k = "thrown"
    /\ Len(vst.wps) = 1
    /\ vst.wps[1].atom = "tg"
    /\ vst.a["tg"].wp = 0

\* the atoms the read function of an atom of the graph "use" reads
DepsOf(x) ==
    CASE AtomDef(x).rd = "sum" -> {AtomDef(x).x, AtomDef(x).y}
      [] AtomDef(x).rd \in {"double", "parity"} -> {AtomDef(x).x}
      [] OTHER -> {}

RECURSIVE Below(_)
\* the atoms an atom reads, directly or through other atoms
Below(x) == DepsOf(x) \cup UNION {Below(z) : z \in DepsOf(x)}

\* a mounted component uses atom x, or an atom that reads x
Needed(x) == \E u \in prov.users : x = u.atom \/ x \in Below(u.atom)

\* the Provider has rendered with every update applied
Rendered ==
    /\ impl = "provider"
    /\ prov.scn = "use"
    /\ Len(prov.updq) = 0
    /\ ~MapHas(prov.pmap, prov.state)

\* C40: in the Provider, once add(id, X) has been followed by del(id, X) the
\* dependents map no longer lists id for X; the state of X is in the live
\* atom-state map while a component uses X or an atom that reads X, and once
\* the last of them has been deleted it is removed from the map and kept in
\* the atom-state cache only, and so are the dependencies of X that nothing
\* else uses.
C40_DelRemoves ==
    Rendered =>
       \A x \in Scenario("use") :
          /\ \A n \in 1..prov.nid :
                IdOf(n) \in Range(prov.state.d[x].s)
                   => [id |-> IdOf(n), atom |-> x] \in prov.users
          /\ prov.state.s[x].has <=> Needed(x)
          /\ (prov.state.d[x].has /\ ~Needed(x)) => prov.cache[x].has

\* the state of atom x: the committed one of part_003, that of the last
\* render of the Provider
StateOf(x) == IF impl = "vanilla" THEN vst.a[x] ELSE prov.state.s[x]

\* the promises the read functions have made
ReadPromises == IF impl = "vanilla" THEN vst.rps ELSE prov.rps

\* a promise thrown out of the read function of x has yet to run its callback
Suspended(x) ==
    \E i \in 1..Len(ReadPromises) :
        /\ ReadPromises[i].atom = x
        /\ ReadPromises[i].k = "thrown"
        /\ ~ReadPromises[i].done

\* x has left the pending state with a value or an error; an atom whose
\* state the Provider has removed is not pending either
Left(x) ==
    StateOf(x).has =>
        /\ StateOf(x).rp = 0
        /\ StateOf(x).hasRe \/ StateOf(x).v /= Undef

\* the read function of x has thrown a promise, or the state of x holds a
\* read promise
Pending(x) == Suspended(x) \/ (StateOf(x).has /\ StateOf(x).rp /= 0)

\* C31: in part_003 and in the Provider a promise thrown out of the read
\* function of an atom is recorded as the read promise of the atom and never
\* as its read error: nx, which reads asy, holds a read error only when asy
\* holds one, and then it holds no read promise; and once the read function
\* of nx has thrown a promise, nx is recomputed when the promise settles and
\* eventually leaves the pending state with a value or an error.
C31_ThrownPromiseResolves ==
    /\ [](StateOf("nx").hasRe => (StateOf("nx").rp = 0 /\ StateOf("asy").hasRe))
    /\ Pending("nx") ~> Left("nx")

\* the atoms made by waitForAll and the atoms each of them waits for
Waiting == {"wfa", "wfo"}
Inputs(w) == unwrapAtoms(WaitForAllArg(w))

\* an atom state that holds a value: no read promise, no read error
Settled(s) == s.has /\ s.rp = 0 /\ ~s.hasRe

\* every promise made by Promise.all in the read function of a waitForAll
\* atom comes from a run that has called the accessor with every input, and
\* lists promises of the read functions of the inputs, made before it
AllStarted ==
    \A i \in 1..Len(vst.rps) :
        vst.rps[i].k = "all" =>
           /\ vst.rps[i].deps = Inputs(vst.rps[i].atom)
           /\ Len(vst.rps[i].all) >= 1
           /\ \A j \in 1..Len(vst.rps[i].all) :
                 /\ vst.rps[i].all[j] < i
                 /\ vst.rps[vst.rps[i].all[j]].k = "fn"
                 /\ vst.rps[vst.rps[i].all[j]].atom \in Range(Inputs(vst.rps[i].atom))

\* the values the inputs of w hold after the step: for an array of atoms the
\* array of them in the order of the atoms, for an object of atoms the object
\* that has under each key the value of the atom the argument has under it
Awaited(w) ==
    IF WaitForAllArg(w).isArray
    THEN [k |-> "array",
          x |-> [i \in 1..Len(WaitForAllArg(w).atoms) |->
                   vst'.a[WaitForAllArg(w).atoms[i]].v]]
    ELSE [k |-> "object",
          x |-> [key \in Range(WaitForAllArg(w).names) |->
                   vst'.a[WaitForAllArg(w).atoms[key]].v]]

\* C32: the atom waitForAll returns reads every input, an earlier input being
\* pending or not, so that the promises of all the inputs are made in the
\* same run; in part_003 a step that leaves it with a value finds every input
\* with a value, none pending, and the value is the array of the values of
\* the inputs in the order of the inputs, or the object that has them under
\* the keys of the inputs; and a step that computes it while an input holds
\* a read error leaves it with a read error.
C32_WaitForAll ==
    /\ [](impl = "vanilla" => AllStarted)
    /\ [][impl = "vanilla" =>
            \A w \in Waiting :
               /\ (vst'.a[w] /= vst.a[w] /\ Settled(vst'.a[w])) =>
                     /\ \A i \in 1..Len(Inputs(w)) : Settled(vst'.a[Inputs(w)[i]])
                     /\ vst'.a[w].v = Awaited(w)
               /\ (/\ vst'.a[w] /= vst.a[w]
                   /\ vst'.a[w].has
                   /\ \E i \in 1..Len(Inputs(w)) :
                         vst'.a[Inputs(w)[i]].has /\ vst'.a[Inputs(w)[i]].hasRe) =>
                     /\ vst'.a[w].hasRe
                     /\ vst'.a[w].rp = 0]_vars

\* C32 witness: both inputs were pending when the read functions of wfa and
\* wfo threw Promise.all of two promises; the promises have settled, asy with
\* 11 and bad with 21, and wfa holds [11, 21], wfo { p: 11, q: 21 }
C32_Witness ==
    /\ impl = "vanilla"
    /\ last.op = "vsettle"
    /\ Settled(vst.a["wfa"])
    /\ vst.a["wfa"].v = [k |-> "array", x |-> <<Num(11), Num(21)>>]
    /\ Settled(vst.a["wfo"])
    /\ vst.a["wfo"].v = [k |-> "object", x |-> [p |-> Num(11), q |-> Num(21)]]
    /\ \E i \in 1..Len(vst.rps) :
          vst.rps[i].k = "all" /\ Len(vst.rps[i].all) = 2 /\ vst.rps[i].done
====
